---- MODULE Spec2Model ----
(***************************************************************************)
(* Model of the tracking engine of security-video-automation:              *)
(* TrackingEngine (src/automation/tracking_engine.py), MotionTracker       *)
(* (src/ai/motion_tracker.py) and PTZController (src/camera/               *)
(* ptz_controller.py).  Time is counted in units of 0.05 s.                *)
(***************************************************************************)
EXTENDS Integers, Sequences, FiniteSets, TLC

VARIABLES
    running, paused, detection_stop,          \* engine flags
    frame_count,
    pending_detection_frame,                  \* frame-in mailbox: <<>> or <<frame>>
    last_detection_results,                   \* detections-out snapshot
    last_detections,                          \* overlay cache
    next_object_id, object_centroids, centroid_ages,
    position_history, track_info,             \* MotionTracker
    current_preset, last_ptz_time, last_movement_time,
    idle_preset_override,
    quadrant_mode_enabled, current_quadrant, quadrant_zoom_counter,
    quadrant_config, last_bbox_area,
    ptz_movement_count, active_events, completed_events, event_counter,
    now,                                      \* time.time()
    ctl,                                      \* control-loop thread
    wrk,                                      \* detection-worker thread
    api,                                      \* caller of the engine API
    camera_moving,                            \* a ContinuousMove is in effect
    ptz_log, prev_cmd,                        \* commands of the latest step / before it
    tick_log,                                 \* what the tick in progress has seen and done
    mailbox_log,                              \* frames overwritten / consumed
    stream,                                   \* VideoStreamHandler and its two threads
    mot                                       \* MultiObjectTracker

flagVars    == <<running, paused, detection_stop>>
mailboxVars == <<pending_detection_frame, last_detection_results>>
trackerVars == <<next_object_id, object_centroids, centroid_ages>>
motionVars  == <<position_history, track_info>>
stateVars   == <<current_preset, last_ptz_time, last_movement_time,
                 quadrant_zoom_counter, last_bbox_area, current_quadrant>>
apiVars     == <<idle_preset_override, quadrant_mode_enabled, quadrant_config>>
eventVars   == <<ptz_movement_count, active_events, completed_events, event_counter>>
ptzVars     == <<camera_moving, ptz_log, prev_cmd>>

vars == <<flagVars, frame_count, mailboxVars, last_detections, trackerVars,
          motionVars, stateVars, apiVars, eventVars, now, ctl, wrk, api,
          ptzVars, tick_log, mailbox_log, stream, mot>>

----------------------------------------------------------------------------
(* Values fixed by the program (times in units of 0.05 s, pixels).        *)

max_centroid_distance    == 50
centroid_max_age         == 30
detection_skip_interval  == 3
center_tracking_cooldown == 1      \* 0.05 s
move_duration            == 3      \* 0.15 s
quadrant_settle_time     == 10     \* time.sleep(0.5)
zoom_entry_duration      == 16     \* 0.8 s
fine_tune_duration       == 2      \* 0.1 s
home_reissue_gap         == 20     \* 1.0 s
inactivity_timeout       == 100    \* 5.0 s
read_timeout             == 20     \* stream.read(timeout=1.0)
paused_sleep             == 2      \* time.sleep(0.1)
join_timeout             == 100
loop_backoff             == 2
worker_backoff           == 2    \* join(timeout=5.0)
min_history_for_direction == 5
inactive_timeout         == 40     \* MotionTracker(inactive_timeout=2.0)
max_distance             == 100    \* MultiObjectTracker(max_distance=100.0)
movement_threshold       == 50
stationary_threshold     == 20
min_frames_tracked       == 2
min_confidence           == 60     \* percent
DEAD_ZONE_PIXELS         == 20
confidence_floor         == 55     \* percent
frame_width              == 640
frame_height             == 480

home_preset    == "Preset004"
NoPreset       == "None"           \* Python None in a string-valued field
NoQuadrant     == "None"
target_classes == {"person"}

(* Bounds of the model.                                                     *)
Epoch             == 25   \* time.time() at construction, beyond every gap
MaxElapsed        == 160  \* the clock stops at Epoch + MaxElapsed
history_length    == 5    \* MotionTracker(history_length=...)
MaxFrames         == 4    \* frames read in SpecControl
MaxHomeFrames     == 7    \* frames read in SpecHome
MaxTrackerFrames  == 37   \* frames read in SpecTracker
MaxIdentityFrames == 9    \* frames read in SpecIdentity
MaxSceneFrames    == 6    \* frames after which the scene of SpecTracker is still
MaxLag            == 1    \* frames the worker of SpecTracker falls behind
MaxObjects        == 3    \* identities created
MaxEngineFrames   == 6    \* frames read in Spec
MaxApiCommands    == 2    \* commands sent by web handlers in SpecApi
MaxApiFrames      == 4    \* frames read in SpecApi
MaxFaultFrames    == 6    \* frames read in SpecFaults
MaxFaults         == 1    \* exceptions per thread in SpecFaults
MaxToggleFrames   == 4    \* frames read in SpecToggle
MaxWaits          == 1    \* paused sleeps and frame reads that time out
MaxAssignAge      == 31   \* age an identity reaches in SpecAssign
MaxUpdates        == 6    \* calls of MotionTracker.update in SpecMotion
buffer_size       == 2    \* VideoStreamHandler(buffer_size=...)
MaxStreamFrames   == 5    \* frames the capture thread receives in SpecStream
max_age           == 2    \* MultiObjectTracker(max_age=...)
MaxMotCalls       == 5    \* calls of MultiObjectTracker.update in SpecMot

MaxTime == Epoch + MaxElapsed

----------------------------------------------------------------------------
(* Helpers.                                                                 *)

Abs(x)    == IF x < 0 THEN -x ELSE x
Min(a, b) == IF a < b THEN a ELSE b
Max(a, b) == IF a < b THEN b ELSE a

Digit(d) ==
    CASE d = 0 -> "0" [] d = 1 -> "1" [] d = 2 -> "2" [] d = 3 -> "3"
      [] d = 4 -> "4" [] d = 5 -> "5" [] d = 6 -> "6" [] d = 7 -> "7"
      [] d = 8 -> "8" [] d = 9 -> "9"

\* str(object_id): the decimal numeral of a non-negative integer
RECURSIVE Str(_)
Str(n) == IF n < 10 THEN Digit(n) ELSE Str(n \div 10) \o Digit(n % 10)

\* iteration order of a dict whose keys were inserted in increasing order
RECURSIVE SortedIds(_)
SortedIds(S) ==
    IF S = {} THEN <<>>
    ELSE LET m == CHOOSE x \in S : \A y \in S : x <= y
         IN  <<m>> \o SortedIds(S \ {m})

\* d with key k bound to v (dict assignment)
Put(d, k, v) == [x \in DOMAIN d \cup {k} |-> IF x = k THEN v ELSE d[x]]
\* d without the keys in ks (del)
Drop(d, ks) == [x \in DOMAIN d \ ks |-> d[x]]

Dist2(p, q) == (p[1] - q[1]) * (p[1] - q[1]) + (p[2] - q[2]) * (p[2] - q[2])

----------------------------------------------------------------------------
(* Identity Tracker: TrackingEngine._assign_object_ids.                    *)

\* variant: the first centroid within max_centroid_distance is taken
CloserThanFirst(d2, best2) ==
    /\ d2 < max_centroid_distance * max_centroid_distance
    /\ best2 = max_centroid_distance * max_centroid_distance

\* dist < best_dist, on squared distances (math.sqrt is strictly monotone)
CloserThan(d2, best2) == d2 < best2

\* variant: a centroid matched earlier in the call is not skipped
UnusedAlways(oid, used) == TRUE

\* "if oid in used_ids: continue"
Unused(oid, used) == oid \notin used

\* the loop over object_centroids.items(): the closest unused centroid
RECURSIVE FindClosest(_, _, _, _, _)
FindClosest(ids, center, centroids, used, best) ==
    IF ids = <<>> THEN best
    ELSE LET oid == Head(ids)
             d2  == Dist2(center, centroids[oid])
             nb  == IF Unused(oid, used) /\ CloserThan(d2, best.dist2)
                    THEN [id |-> <<oid>>, dist2 |-> d2]
                    ELSE best
         IN  FindClosest(Tail(ids), center, centroids, used, nb)

\* one pass of "for detection in detections"
AssignOne(st, det) ==
    LET best == FindClosest(SortedIds(DOMAIN st.centroids), det.center,
                            st.centroids, st.used,
                            [id |-> <<>>,
                             dist2 |-> max_centroid_distance * max_centroid_distance])
    IN  IF best.id # <<>>
        THEN LET b == best.id[1]
             IN  [st EXCEPT !.centroids = Put(@, b, det.center),
                            !.ages = Put(@, b, 0),
                            !.used = @ \cup {b},
                            !.assignments = Append(@, <<b, det>>)]
        ELSE LET n == st.next
             IN  [centroids   |-> Put(st.centroids, n, det.center),
                  ages        |-> Put(st.ages, n, 0),
                  next        |-> n + 1,
                  used        |-> st.used \cup {n},
                  assignments |-> Append(st.assignments, <<n, det>>)]

RECURSIVE AssignLoop(_, _)
AssignLoop(dets, st) ==
    IF dets = <<>> THEN st ELSE AssignLoop(Tail(dets), AssignOne(st, Head(dets)))

\* "for oid in self.centroid_ages: self.centroid_ages[oid] += 1"
AgeAll(ages) == [oid \in DOMAIN ages |-> ages[oid] + 1]

\* the branch "if not detections": tracks older than centroid_max_age are removed
EvictOld(centroids, ages) ==
    LET to_remove == {oid \in DOMAIN ages : ages[oid] > centroid_max_age}
    IN  [centroids |-> Drop(centroids, to_remove), ages |-> Drop(ages, to_remove)]

AssignObjectIds(dets, centroids, ages, next) ==
    IF dets = <<>>
    THEN LET e == EvictOld(centroids, ages)
         IN  [centroids |-> e.centroids, ages |-> e.ages, next |-> next,
              used |-> {}, assignments |-> <<>>]
    ELSE AssignLoop(dets, [centroids |-> centroids, ages |-> AgeAll(ages),
                           next |-> next, used |-> {}, assignments |-> <<>>])

----------------------------------------------------------------------------
(* MotionTracker.update and _calculate_direction.                          *)

\* variant: a deque without maxlen
AppendUnbounded(h, x) == Append(h, x)

\* deque(maxlen=history_length).append
AppendBounded(h, x) ==
    IF Len(h) >= history_length THEN Append(Tail(h), x) ELSE Append(h, x)

\* variant: a displacement equal to stationary_threshold counts as stationary
CalculateDirectionInclusive(positions) ==
    IF Len(positions) < min_history_for_direction THEN "UNKNOWN"
    ELSE LET dx == positions[Len(positions)][1] - positions[1][1]
             dy == positions[Len(positions)][2] - positions[1][2]
             d2 == dx * dx + dy * dy
         IN  IF d2 <= stationary_threshold * stationary_threshold THEN "STATIONARY"
             ELSE IF d2 < movement_threshold * movement_threshold THEN "UNKNOWN"
             ELSE IF Abs(dx) > Abs(dy)
                  THEN (IF dx > 0 THEN "LEFT_TO_RIGHT" ELSE "RIGHT_TO_LEFT")
                  ELSE (IF dy > 0 THEN "TOP_TO_BOTTOM" ELSE "BOTTOM_TO_TOP")

CalculateDirection(positions) ==
    IF Len(positions) < min_history_for_direction THEN "UNKNOWN"
    ELSE LET dx == positions[Len(positions)][1] - positions[1][1]
             dy == positions[Len(positions)][2] - positions[1][2]
             d2 == dx * dx + dy * dy
         IN  IF d2 < stationary_threshold * stationary_threshold THEN "STATIONARY"
             ELSE IF d2 < movement_threshold * movement_threshold THEN "UNKNOWN"
             ELSE IF Abs(dx) > Abs(dy)
                  THEN (IF dx > 0 THEN "LEFT_TO_RIGHT" ELSE "RIGHT_TO_LEFT")
                  ELSE (IF dy > 0 THEN "TOP_TO_BOTTOM" ELSE "BOTTOM_TO_TOP")

\* _calculate_total_displacement: the sum of the distances between consecutive
\* samples of the history, in tenths of a pixel (each distance rounded down)
CalculateTotalDisplacement(positions) ==
    LET RECURSIVE root(_, _, _)
        root(n, lo, hi) ==
            IF lo >= hi THEN lo
            ELSE LET mid == (lo + hi + 1) \div 2
                 IN  IF mid * mid <= n THEN root(n, mid, hi) ELSE root(n, lo, mid - 1)
        RECURSIVE total(_)
        total(i) ==
            IF i < 2 THEN 0
            ELSE total(i - 1) + root(100 * Dist2(positions[i - 1], positions[i]), 0, 10000)
    IN  total(Len(positions))

\* MotionTracker.update(object_id, center, timestamp): the new history and
\* track tables and the direction returned
MotionUpdate(ph, ti, oid, center, ts) ==
    LET fresh == oid \notin DOMAIN ph
        hist  == AppendBounded(IF fresh THEN <<>> ELSE ph[oid],
                               <<center[1], center[2], ts>>)
        n0    == IF fresh THEN 0 ELSE ti[oid].frames_tracked
        dir   == CalculateDirection(hist)
        track == [object_id |-> oid, current_position |-> center,
                  current_direction |-> dir,
                  total_displacement |-> CalculateTotalDisplacement(hist),
                  frames_tracked |-> n0 + 1,
                  last_update_time |-> ts, is_active |-> TRUE]
    IN  [ph |-> Put(ph, oid, hist), ti |-> Put(ti, oid, track), direction |-> dir]

----------------------------------------------------------------------------
(* PTZController.  An actuator state a = [t, moving, log]: the clock, whether *)
(* the camera is executing a ContinuousMove, and the commands sent.  Every    *)
(* ptz_service request either succeeds or raises (ok).                        *)

Cmd(op, t, ok, ident, nonzero, stopped, arg) ==
    [op |-> op, t |-> t, ok |-> ok, ident |-> ident, nonzero |-> nonzero,
     stopped |-> stopped, arg |-> arg]

NoIdent == -1    \* a command that is issued for no identity (home return)

\* goto_preset: the exception of GotoPreset is caught, False is returned
PtzGotoPreset(a, preset, ok) ==
    [a EXCEPT !.moving = IF ok THEN FALSE ELSE @,
              !.log = Append(@, Cmd("goto_preset", a.t, ok, NoIdent, FALSE, TRUE, preset))]

\* relative_move: the exception of RelativeMove is caught, False is returned
PtzRelativeMove(a, ident, quadrant, ok) ==
    [a EXCEPT !.moving = IF ok THEN FALSE ELSE @,
              !.log = Append(@, Cmd("relative_move", a.t, ok, ident, FALSE, TRUE, quadrant))]

\* stop(): the exception of Stop is caught, False is returned
PtzStop(moving, okStop) == IF okStop THEN FALSE ELSE moving

\* continuous_move(pan, tilt, zoom, duration): ContinuousMove, sleep(duration),
\* stop(), return True; an exception of ContinuousMove returns False at once.
\* The value of stop() is not looked at.
PtzContinuousMove(a, ident, nonzero, duration, okMove, okStop, arg) ==
    IF ~okMove
    THEN [a EXCEPT !.log = Append(@, Cmd("continuous_move", a.t, FALSE, ident,
                                         nonzero, TRUE, arg))]
    ELSE [t      |-> a.t + duration,
          moving |-> PtzStop(nonzero, okStop),
          log    |-> Append(a.log, Cmd("continuous_move", a.t, TRUE, ident,
                                       nonzero, okStop, arg))]

\* the keyword parameters of PTZController.continuous_move
ContinuousMoveParams == {"pan_velocity", "tilt_velocity", "zoom_velocity", "duration"}
\* the keywords of the call in _handle_tracking_action
CenterMoveKeywords ==
    {"pan_velocity", "tilt_velocity", "zoom_velocity", "duration", "blocking"}
\* a call with a keyword the function does not have raises TypeError
CallAccepted(keywords, params) == keywords \subseteq params

----------------------------------------------------------------------------
(* Zone State Machine: _get_quadrant_for_position and                       *)
(* _handle_quadrant_tracking_action.                                        *)

GetQuadrantForPosition(x, y, width, height) ==
    IF 2 * x < width
    THEN (IF 2 * y < height THEN "top_left" ELSE "bottom_left")
    ELSE (IF 2 * y < height THEN "top_right" ELSE "bottom_right")

\* 0.5 * min(1.0, (|offset| / half) ** 2) as a multiple of 1 / (2 * full * full),
\* with o2 = 2 * offset and full = 2 * half: exact, 0 only for offset 0
FineMagnitude(o2, full) == Min(full * full, o2 * o2)
\* abs(velocity) > 0.01 for that magnitude
FineExceeds(o2, full) == 50 * Min(full * full, o2 * o2) > full * full

FinePan(x, width)   == LET o2 == 2 * x - width
                       IN  FineMagnitude(o2, width) * (IF o2 > 0 THEN 1 ELSE -1)
FineTilt(y, height) == LET o2 == 2 * y - height
                       IN  -(FineMagnitude(o2, height) * (IF o2 > 0 THEN 1 ELSE -1))

\* the quadrant is entered: the coarse move, the settling sleep, the zoom
QuadrantEntry(a, ident, quadrant, cfg, oc) ==
    LET a1 == PtzRelativeMove(a, ident, quadrant, oc.rel)
        a2 == [a1 EXCEPT !.t = @ + quadrant_settle_time]
    IN  IF cfg.zoom_on_entry
        THEN PtzContinuousMove(a2, ident, cfg.zoom_level # 0, zoom_entry_duration,
                               oc.cm1, oc.stop1, "zoom")
        ELSE a2

\* the latest command of a with the velocities it carries and the doubled
\* pixel offsets of the subject from the frame centre they were computed from
WithVelocity(a, pan, tilt, offset2) ==
    [a EXCEPT !.log[Len(a.log)] =
        @ @@ [pan |-> pan, tilt |-> tilt, offset2 |-> offset2]]

\* fine-tuning inside the quadrant
QuadrantFineTune(a, ident, det, cfg, oc) ==
    IF cfg.fine_tune_tracking
       /\ (FineExceeds(2 * det.center[1] - frame_width, frame_width)
           \/ FineExceeds(2 * det.center[2] - frame_height, frame_height))
    THEN WithVelocity(PtzContinuousMove(a, ident, TRUE, fine_tune_duration,
                                        oc.cm2, oc.stop2, "fine"),
                      FinePan(det.center[1], frame_width),
                      FineTilt(det.center[2], frame_height),
                      <<2 * det.center[1] - frame_width,
                        2 * det.center[2] - frame_height>>)
    ELSE a

\* variant: current_quadrant is set only when the zoom on entry succeeds
HandleQuadrantZoomGated(a, ident, det, quadrant, cq, qzc, cfg, oc) ==
    LET changed == quadrant # cq
        a1 == IF changed THEN QuadrantEntry(a, ident, quadrant, cfg, oc) ELSE a
        entered == changed /\ (cfg.zoom_on_entry => oc.cm1)
    IN  [a  |-> QuadrantFineTune(a1, ident, det, cfg, oc),
         current_quadrant      |-> IF entered THEN quadrant ELSE cq,
         quadrant_zoom_counter |-> IF entered THEN 0 ELSE qzc]

\* _handle_quadrant_tracking_action: [a, current_quadrant, quadrant_zoom_counter]
HandleQuadrant(a, ident, det, quadrant, cq, qzc, cfg, oc) ==
    LET changed == quadrant # cq
        a1 == IF changed THEN QuadrantEntry(a, ident, quadrant, cfg, oc) ELSE a
    IN  [a  |-> QuadrantFineTune(a1, ident, det, cfg, oc),
         current_quadrant      |-> IF changed THEN quadrant ELSE cq,
         quadrant_zoom_counter |-> IF changed THEN 0 ELSE qzc]

----------------------------------------------------------------------------
(* Event Recorder: _record_tracking_event.                                  *)

RecordTrackingEvent(events, counter, object_id, class_name, direction, zone, preset, t) ==
    IF object_id \in DOMAIN events
    THEN [events  |-> [events EXCEPT ![object_id].frame_count = @ + 1,
                                     ![object_id].zone_transitions = Append(@, zone),
                                     ![object_id].ptz_actions = Append(@, preset)],
          counter |-> counter]
    ELSE [events  |-> Put(events, object_id,
                          [event_id |-> "event_" \o Str(counter + 1),
                           object_id |-> object_id, class_name |-> class_name,
                           direction |-> direction, start_time |-> t,
                           end_time |-> <<>>, zone_transitions |-> <<zone>>,
                           ptz_actions |-> <<preset>>, frame_count |-> 1]),
          counter |-> counter + 1]

----------------------------------------------------------------------------
(* Center tracking: _handle_tracking_action.  Velocities in thousandths,    *)
(* predicted positions in tenths of a pixel.                                *)

\* MotionTracker._calculate_velocity: (dx, dy) over dt units; (0, 0) over 1
\* when there are fewer than 2 samples or no time has passed
CalculateVelocity(positions) ==
    LET n      == Len(positions)
        first  == IF n > 10 THEN n - 9 ELSE 1
    IN  IF n < 2 \/ positions[n][3] - positions[first][3] <= 0
        THEN [dx |-> 0, dy |-> 0, dt |-> 1]
        ELSE [dx |-> positions[n][1] - positions[first][1],
              dy |-> positions[n][2] - positions[first][2],
              dt |-> positions[n][3] - positions[first][3]]

\* confidence_factor = min(1.0, (confidence - 0.5) / 0.4), in fortieths
ConfidenceFactor(conf) == Min(40, conf - 50)

\* the predicted coordinate, clamped to the frame: c + v * 0.033 * factor, with
\* v = 20 * d / dt pixels per second and factor = ConfidenceFactor(conf) / 40
Predict(c, d, dt, conf, limit) ==
    IF conf > confidence_floor
    THEN Max(0, Min(10 * limit, 10 * c + (33 * d * ConfidenceFactor(conf)) \div (200 * dt)))
    ELSE 10 * c

\* max_velocity * min(1.0, (|offset| / half) ** 2), 0 inside the dead zone
AxisMagnitude(offset10, half) ==
    IF Abs(offset10) < 10 * DEAD_ZONE_PIXELS THEN 0
    ELSE LET o == Abs(offset10) \div 10
         IN  (1000 * Min(half * half, o * o)) \div (half * half)

CenterPan(x10) ==
    LET off == x10 - 5 * frame_width
    IN  AxisMagnitude(off, frame_width \div 2) * (IF off > 0 THEN 1 ELSE -1)

MAX_TILT_VELOCITY == 750

\* variant: the tilt velocity is not limited to MAX_TILT_VELOCITY
CenterTiltUndamped(y10) ==
    LET off == 5 * frame_height - y10
    IN  -(AxisMagnitude(off, frame_height \div 2) * (IF off > 0 THEN 1 ELSE -1))

CenterTilt(y10) ==
    LET off == 5 * frame_height - y10
        v   == -(AxisMagnitude(off, frame_height \div 2) * (IF off > 0 THEN 1 ELSE -1))
    IN  Max(-MAX_TILT_VELOCITY, Min(MAX_TILT_VELOCITY, v))

IDEAL_BBOX_AREA == 40000

\* variant: zoom whatever the trend of the box area
ZoomVelocityAnyTrend(area, last) ==
    IF area > 0
    THEN Max(-200, Min(200, (50 * (IDEAL_BBOX_AREA - area)) \div area))
    ELSE 0

\* zoom only while the box grows by more than 5 % between triggers
ZoomVelocity(area, last) ==
    IF area > 0 /\ last # <<>> /\ 100 * area > 105 * last[1]
    THEN Max(-200, Min(200, (50 * (IDEAL_BBOX_AREA - area)) \div area))
    ELSE 0

StateLabel(pan, tilt) ==
    (IF pan > 100 THEN "PAN_RIGHT" ELSE IF pan < -100 THEN "PAN_LEFT" ELSE "CENTER_X")
    \o "|" \o
    (IF tilt > 100 THEN "TILT_DOWN" ELSE IF tilt < -100 THEN "TILT_UP" ELSE "CENTER_Y")

\* _handle_tracking_action in center mode.  e = the engine fields it reads and
\* writes; the result has the same fields.
HandleCenter(e, ident, det, direction, track, hist, oc) ==
    LET v     == CalculateVelocity(hist)
        pan   == CenterPan(Predict(det.center[1], v.dx, v.dt, det.confidence, frame_width))
        tilt  == CenterTilt(Predict(det.center[2], v.dy, v.dt, det.confidence, frame_height))
        zoom  == ZoomVelocity(det.bbox_area, e.last_bbox_area)
        e1    == [e EXCEPT !.last_bbox_area = IF det.bbox_area > 0
                                              THEN <<det.bbox_area>> ELSE @]
    IN  IF ~CallAccepted(CenterMoveKeywords, ContinuousMoveParams)
        THEN e1     \* TypeError, caught by "except Exception"
        ELSE LET a1    == PtzContinuousMove(e1.a, ident,
                                            pan # 0 \/ tilt # 0 \/ zoom # 0,
                                            move_duration, oc.cm1, oc.stop1, "center")
                 label == StateLabel(pan, tilt)
                 r     == RecordTrackingEvent(e1.active_events, e1.event_counter,
                                              track.object_id, det.class_name,
                                              direction, "tracking", label, a1.t)
             IN  [e1 EXCEPT !.a = a1,
                            !.last_ptz_time = a1.t,
                            !.ptz_movement_count = @ + 1,
                            !.current_preset = label,
                            !.active_events = r.events,
                            !.event_counter = r.counter]

\* _should_trigger_tracking, evaluated at time t
ShouldTriggerTracking(direction, track, t, lastPtz) ==
    /\ direction # "STATIONARY"
    /\ track.frames_tracked >= min_frames_tracked
    /\ ~(t - lastPtz < center_tracking_cooldown)

----------------------------------------------------------------------------
(* Inputs of the model.                                                     *)

P1 == <<260, 230>>     \* top_left, far enough from the centre to fine-tune
P2 == <<290, 230>>     \* top_left
P3 == <<330, 230>>     \* top_right
P4 == <<330, 250>>     \* bottom_right

Det(p, cls, conf) ==
    [center |-> p, class_name |-> cls, confidence |-> conf, bbox_area |-> 30000]
Person(p) == Det(p, "person", 80)

\* what Detector.detect can return, per specification
IdentityScenes == {<<>>, <<Person(P1)>>, <<Person(P2)>>, <<Person(P3)>>}
TrackerScenes  == {<<>>, <<Person(P1)>>, <<Person(P3)>>}
HomeScenes     == {<<>>, <<Person(P1)>>}
ControlScenes  == {<<>>, <<Person(P1)>>, <<Person(P1), Person(P2)>>,
                   <<Person(P1), Person(P4)>>}
EngineScenes   == {<<>>, <<Det(P3, "car", 90), Person(P1)>>,
                   <<Det(P2, "person", 50)>>}

QuadrantConfigs ==
    {[zoom_on_entry |-> TRUE, zoom_level |-> 500, fine_tune_tracking |-> f] :
        f \in BOOLEAN}
DefaultQuadrantConfig ==
    [zoom_on_entry |-> TRUE, zoom_level |-> 500, fine_tune_tracking |-> FALSE]

OverridePresets == {NoPreset, "Preset001"}

\* the outcomes of the ptz_service requests of one step
AllOk == [rel |-> TRUE, cm1 |-> TRUE, stop1 |-> TRUE, cm2 |-> TRUE, stop2 |-> TRUE,
          goto |-> TRUE]
Outcomes == {AllOk} \cup {[AllOk EXCEPT ![k] = FALSE] : k \in DOMAIN AllOk}

IsTruthy(s) == s \notin {NoPreset, ""}

----------------------------------------------------------------------------
(* Initial state: the engine as constructed by __init__.                    *)

NewTick ==
    [t0 |-> 0, lmt0 |-> 0, lpt0 |-> 0, preset0 |-> NoPreset, target |-> NoPreset,
     ndets |-> 0, fired |-> FALSE, home |-> <<>>, done |-> FALSE,
     empty_streak |-> 0, assigned |-> <<>>, prev_assigned |-> <<>>,
     centroids0 |-> <<>>, ages0 |-> <<>>, ages1 |-> <<>>,
     q_step |-> FALSE, q_prev |-> NoQuadrant, q_now |-> NoQuadrant,
     q_last |-> NoQuadrant, last_home |-> <<>>]

InitFrom(cfgs, todos) ==
    /\ running = FALSE /\ paused = FALSE /\ detection_stop = FALSE
    /\ frame_count = 0
    /\ pending_detection_frame = <<>>
    /\ last_detection_results = <<>>
    /\ last_detections = <<>>
    /\ next_object_id = 0
    /\ object_centroids = <<>>
    /\ centroid_ages = <<>>
    /\ position_history = <<>>
    /\ track_info = <<>>
    /\ current_preset = NoPreset
    /\ last_ptz_time = 0
    /\ last_movement_time = 0
    /\ idle_preset_override = NoPreset
    /\ quadrant_mode_enabled = FALSE
    /\ current_quadrant = NoQuadrant
    /\ quadrant_zoom_counter = 0
    /\ quadrant_config \in cfgs
    /\ last_bbox_area = <<>>
    /\ ptz_movement_count = 0
    /\ active_events = <<>>
    /\ completed_events = <<>>
    /\ event_counter = 0
    /\ now = Epoch
    /\ ctl \in {[pc |-> "idle", frame |-> 0, content |-> <<>>, current_time |-> 0,
                 todo |-> todo, waits |-> 0, ptz |-> "none",
                 cq |-> NoQuadrant, holds |-> {}, raised |-> 0,
                 latest |-> TRUE, old |-> <<>>] : todo \in todos}
    /\ wrk = [pc |-> "idle", detection_frame |-> [id |-> 0, content |-> <<>>],
              detections |-> <<>>, holds |-> {}, failed |-> FALSE, faults |-> 0,
              raised |-> 0, latest |-> TRUE, old |-> <<>>]
    /\ api = [pc |-> "idle", stopped |-> FALSE, ctl_joined |-> "no",
              wrk_joined |-> "no", open_at_stop |-> {}, sent |-> <<>>,
              toggle |-> <<>>]
    /\ camera_moving = FALSE
    /\ ptz_log = <<>>
    /\ prev_cmd = <<>>
    /\ tick_log = NewTick
    /\ mailbox_log = [overwritten |-> {}, consumed |-> <<>>, detected |-> <<>>]
    /\ stream = [frame_queue |-> <<>>, frames_received |-> 0, frames_dropped |-> 0,
                 cap |-> [pc |-> "idle", frame |-> 0],
                 delivered |-> <<>>, nones |-> 0, last |-> <<>>]
    /\ mot = [next_id |-> 1, track_ages |-> <<>>, last_positions |-> <<>>,
              detections |-> <<>>, results |-> <<>>]

\* the engine as constructed
InitWith(cfgs) == InitFrom(cfgs, {<<>>})

----------------------------------------------------------------------------
(* The control loop: _tracking_loop and _process_frame, one action per      *)
(* step between two points where the other threads can run.                 *)

\* the last tracking command (relative_move, continuous_move) of a log
RECURSIVE LastTracking(_, _)
LockFree(lock, others) == lock \notin others
Acquire(holds, lock) == holds \cup {lock}
\* leaving a "with lock:" block, by its end, by continue or by an exception
Release(holds, lock) == holds \ {lock}

LastTracking(log, default) ==
    IF log = <<>> THEN default
    ELSE IF log[Len(log)].ident # NoIdent THEN <<log[Len(log)]>>
    ELSE LastTracking(SubSeq(log, 1, Len(log) - 1), default)

\* variant: the loop does not look at paused
CtlWhileUnpaused ==
    /\ ctl.pc = "while"
    /\ ctl' = [ctl EXCEPT !.pc = IF running THEN "read" ELSE "exited"]
    /\ UNCHANGED <<flagVars, frame_count, mailboxVars, last_detections, trackerVars,
                   motionVars, stateVars, apiVars, eventVars, now, wrk, api, ptzVars,
                   tick_log, mailbox_log, stream, mot>>

\* "while self.running:" and "if self.paused: time.sleep(0.1); continue"
CtlWhile ==
    /\ ctl.pc = "while"
    /\ IF ~running
       THEN ctl' = [ctl EXCEPT !.pc = "exited"] /\ now' = now
       ELSE IF paused
            THEN ctl.waits < MaxWaits /\ now + paused_sleep <= MaxTime
                 /\ now' = now + paused_sleep
                 /\ ctl' = [ctl EXCEPT !.waits = @ + 1]
            ELSE ctl' = [ctl EXCEPT !.pc = "read"] /\ now' = now
    /\ UNCHANGED <<flagVars, frame_count, mailboxVars, last_detections, trackerVars,
                   motionVars, stateVars, apiVars, eventVars, wrk, api, ptzVars,
                   tick_log, mailbox_log, stream, mot>>

\* the worker is less than lag frames behind the control loop
WorkerWithin(lag) ==
    /\ pending_detection_frame # <<>>
          => frame_count - pending_detection_frame[1].id < lag
    /\ wrk.pc \in {"w_detect", "w_publish"}
          => frame_count - wrk.detection_frame.id < lag

\* frame = self.stream.read(timeout=1.0): a frame after dt, or None after the
\* timeout; "self.frame_count += 1".  content is what the detector finds in
\* the frame; the scene changes on frames that are submitted, up to frame
\* stillAfter.
CtlRead(got, dt, cap, content, stillAfter, lag) ==
    /\ ctl.pc = "read"
    /\ IF got
       THEN /\ frame_count < cap
            /\ \/ content = ctl.content
               \/ /\ (frame_count + 1) % detection_skip_interval = 0
                  /\ frame_count + 1 <= stillAfter
            /\ WorkerWithin(lag)
            /\ now + dt <= MaxTime
            /\ now' = now + dt
            /\ frame_count' = frame_count + 1
            /\ ctl' = [ctl EXCEPT !.pc = "submit", !.frame = frame_count + 1,
                                  !.content = content]
       ELSE /\ ctl.waits < MaxWaits /\ now + read_timeout <= MaxTime
            /\ now' = now + read_timeout
            /\ frame_count' = frame_count
            /\ ctl' = [ctl EXCEPT !.pc = "while", !.waits = @ + 1]
    /\ UNCHANGED <<flagVars, mailboxVars, last_detections, trackerVars, motionVars,
                   stateVars, apiVars, eventVars, wrk, api, ptzVars, tick_log,
                   mailbox_log, stream, mot>>

\* detection_frame.copy() replaces whatever is pending
Submit(pending, frame) == <<frame>>

\* _process_frame up to the submit: every detection_skip_interval-th frame is
\* put into the mailbox under pending_frame_lock
CtlSubmit ==
    /\ ctl.pc = "submit"
    /\ IF frame_count % detection_skip_interval = 0
       THEN /\ LockFree("pending_frame_lock", wrk.holds)
            /\ ctl' = [ctl EXCEPT !.pc = "snapshot", !.current_time = now,
                          !.holds = Release(Acquire(@, "pending_frame_lock"),
                                            "pending_frame_lock")]
            /\ pending_detection_frame' =
                   Submit(pending_detection_frame,
                          [id |-> ctl.frame, content |-> ctl.content])
            /\ mailbox_log' = [mailbox_log EXCEPT !.overwritten =
                                  @ \cup {pending_detection_frame[i].id :
                                            i \in 1..Len(pending_detection_frame)}]
       ELSE /\ ctl' = [ctl EXCEPT !.pc = "snapshot", !.current_time = now]
            /\ UNCHANGED <<pending_detection_frame, mailbox_log>>
    /\ tick_log' = [tick_log EXCEPT !.t0 = now, !.lmt0 = last_movement_time,
                                    !.lpt0 = last_ptz_time,
                                    !.preset0 = current_preset,
                                    !.target = NoPreset, !.ndets = 0,
                                    !.fired = FALSE, !.home = <<>>,
                                    !.done = FALSE, !.q_step = FALSE,
                                    !.prev_assigned = tick_log.assigned,
                                    !.assigned = <<>>]
    /\ UNCHANGED <<flagVars, frame_count, last_detection_results, last_detections,
                   trackerVars, motionVars, stateVars, apiVars, eventVars, now,
                   wrk, api, ptzVars, stream, mot>>

\* "self.idle_preset_override if self.idle_preset_override else self.home_preset"
PresetToUse == IF IsTruthy(idle_preset_override) THEN idle_preset_override
               ELSE home_preset

\* variant: the idle preset is commanded on every idle tick
CheckInactivityEveryTick(a, current_time, okGoto) ==
    LET preset_to_use == PresetToUse
        idle == current_time - last_movement_time >= inactivity_timeout
    IN  IF IsTruthy(preset_to_use) /\ idle
        THEN [a |-> PtzGotoPreset(a, preset_to_use, okGoto),
              current_preset |-> preset_to_use,
              last_ptz_time |-> current_time, target |-> preset_to_use]
        ELSE [a |-> a, current_preset |-> current_preset,
              last_ptz_time |-> last_ptz_time, target |-> preset_to_use]

\* _check_inactivity_and_return_home(current_time): [a, current_preset,
\* last_ptz_time, target]
CheckInactivity(a, current_time, okGoto) ==
    LET preset_to_use == PresetToUse
        idle == current_time - last_movement_time >= inactivity_timeout
        should_move == \/ preset_to_use # current_preset
                       \/ current_time - last_ptz_time > home_reissue_gap
    IN  IF IsTruthy(preset_to_use) /\ idle /\ should_move
        THEN [a |-> PtzGotoPreset(a, preset_to_use, okGoto),
              current_preset |-> preset_to_use,
              last_ptz_time |-> current_time, target |-> preset_to_use]
        ELSE [a |-> a, current_preset |-> current_preset,
              last_ptz_time |-> last_ptz_time, target |-> preset_to_use]

\* _process_frame from the snapshot of last_detection_results to the call of
\* _assign_object_ids: with no detections the tick ends in the inactivity
\* monitor, otherwise the identities are assigned and the loop over
\* tracked_detections begins
CtlSnapshot(okGoto) ==
    /\ ctl.pc = "snapshot"
    /\ LockFree("detection_results_lock", wrk.holds)
    /\ LET detections == last_detection_results
           held == Release(Acquire(ctl.holds, "detection_results_lock"),
                           "detection_results_lock")
           a0 == [t |-> now, moving |-> camera_moving, log |-> <<>>]
           c  == CheckInactivity(a0, ctl.current_time, okGoto)
           r  == AssignObjectIds(detections, object_centroids, centroid_ages,
                                 next_object_id)
       IN  /\ last_detections' = detections
           /\ prev_cmd' = LastTracking(ptz_log, prev_cmd)
           /\ IF detections = <<>>
              THEN /\ current_preset' = c.current_preset
                   /\ last_ptz_time' = c.last_ptz_time
                   /\ camera_moving' = c.a.moving
                   /\ ptz_log' = c.a.log
                   /\ ctl' = [ctl EXCEPT !.pc = "while", !.ptz = "none", !.holds = held]
                   /\ tick_log' = [tick_log EXCEPT
                          !.target = c.target, !.done = TRUE,
                          !.home = IF c.a.log = <<>> THEN <<>> ELSE <<c.a.log[1].arg>>,
                          !.last_home = IF c.a.log = <<>> THEN @ ELSE <<c.a.log[1]>>,
                          !.empty_streak = @ + 1,
                          !.centroids0 = object_centroids,
                          !.ages0 = centroid_ages, !.ages1 = centroid_ages]
                   /\ UNCHANGED trackerVars
              ELSE /\ r.next <= MaxObjects
                   /\ object_centroids' = r.centroids
                   /\ centroid_ages' = r.ages
                   /\ next_object_id' = r.next
                   /\ ptz_log' = <<>>
                   /\ ctl' = [ctl EXCEPT !.pc = "track", !.todo = r.assignments,
                                         !.holds = held]
                   /\ tick_log' = [tick_log EXCEPT
                          !.target = PresetToUse, !.ndets = Len(detections),
                          !.empty_streak = 0,
                          !.assigned = r.assignments,
                          !.centroids0 = object_centroids,
                          !.ages0 = centroid_ages, !.ages1 = r.ages]
                   /\ UNCHANGED <<current_preset, last_ptz_time, camera_moving>>
    /\ UNCHANGED <<flagVars, frame_count, mailboxVars, motionVars,
                   last_movement_time, quadrant_zoom_counter, last_bbox_area,
                   current_quadrant, apiVars, eventVars, now, wrk, api, mailbox_log,
                   stream, mot>>

\* one pass of "for object_id, detection in tracked_detections": the motion
\* tracker is updated, the trigger gate is evaluated and, when it passes, the
\* action handler runs and last_movement_time is set
CtlTrack(oc) ==
    /\ ctl.pc = "track"
    /\ LET object_id == Head(ctl.todo)[1]
           det       == Head(ctl.todo)[2]
           oid       == Str(object_id)
           m         == MotionUpdate(position_history, track_info, oid, det.center,
                                     ctl.current_time)
           track     == m.ti[oid]
           trig      == ShouldTriggerTracking(m.direction, track, now, last_ptz_time)
           a0        == [t |-> now, moving |-> camera_moving, log |-> <<>>]
           e0        == [a |-> a0, last_bbox_area |-> last_bbox_area,
                         last_ptz_time |-> last_ptz_time,
                         ptz_movement_count |-> ptz_movement_count,
                         current_preset |-> current_preset,
                         active_events |-> active_events,
                         event_counter |-> event_counter]
           quadrant  == GetQuadrantForPosition(det.center[1], det.center[2],
                                               frame_width, frame_height)
           \* a handler that is inside its actuator calls has read
           \* quadrant_mode_enabled and current_quadrant when it began
           inCall    == ctl.ptz = "in_call"
           inQuad    == quadrant_mode_enabled \/ inCall
           cq        == IF inCall THEN ctl.cq ELSE current_quadrant
           byQuad    == trig /\ inQuad
           q         == HandleQuadrant(a0, object_id, det, quadrant, cq,
                                       quadrant_zoom_counter, quadrant_config, oc)
           e1        == IF ~trig THEN e0
                        ELSE IF inQuad THEN [e0 EXCEPT !.a = q.a]
                        ELSE HandleCenter(e0, object_id, det, m.direction, track,
                                          m.ph[oid], oc)
           rest      == Tail(ctl.todo)
       IN  /\ e1.a.t <= MaxTime
           /\ position_history' = m.ph
           /\ track_info' = m.ti
           /\ now' = e1.a.t
           /\ camera_moving' = e1.a.moving
           /\ ptz_log' = e1.a.log
           /\ prev_cmd' = LastTracking(ptz_log, prev_cmd)
           /\ last_bbox_area' = e1.last_bbox_area
           /\ last_ptz_time' = e1.last_ptz_time
           /\ ptz_movement_count' = e1.ptz_movement_count
           /\ current_preset' = e1.current_preset
           /\ active_events' = e1.active_events
           /\ event_counter' = e1.event_counter
           /\ current_quadrant' = IF byQuad /\ q.current_quadrant # cq
                                  THEN q.current_quadrant ELSE current_quadrant
           /\ quadrant_zoom_counter' = IF byQuad THEN q.quadrant_zoom_counter
                                       ELSE quadrant_zoom_counter
           /\ last_movement_time' = IF trig THEN ctl.current_time ELSE last_movement_time
           /\ ctl' = [ctl EXCEPT !.todo = rest, !.ptz = "none", !.cq = NoQuadrant,
                                 !.pc = IF rest = <<>> THEN "while" ELSE "track"]
           /\ tick_log' = [tick_log EXCEPT
                  !.fired = @ \/ trig, !.done = (rest = <<>>),
                  !.q_step = byQuad, !.q_prev = tick_log.q_last,
                  !.q_now = quadrant,
                  !.q_last = IF byQuad THEN quadrant ELSE @]
    /\ UNCHANGED <<flagVars, frame_count, mailboxVars, last_detections, trackerVars,
                   apiVars, completed_events, wrk, api, mailbox_log, stream, mot>>

\* variant: the thread ends when its iteration raises
CaughtEnds(head) == "exited"

\* "except Exception" around the body of the loop: the thread is at the head
\* of its loop again
Caught(head) == head

\* an exception inside _process_frame (the frame, a callback, a tracker)
\* reaches the except clause of _tracking_loop: error log, traceback,
\* sleep 0.1, next iteration
CtlRaise ==
    /\ ctl.pc \in {"submit", "snapshot", "track"}
    /\ ctl.raised < MaxFaults
    /\ now + loop_backoff <= MaxTime
    /\ now' = now + loop_backoff
    /\ ctl' = [ctl EXCEPT !.pc = Caught("while"), !.todo = <<>>, !.ptz = "none",
                          !.raised = @ + 1]
    /\ UNCHANGED <<flagVars, frame_count, mailboxVars, last_detections, trackerVars,
                   motionVars, stateVars, apiVars, eventVars, wrk, api, ptzVars,
                   tick_log, mailbox_log, stream, mot>>

\* the control loop's next step sends a command to the actuator: the
\* inactivity monitor its goto_preset, the quadrant handler its relative_move
\* or continuous_move (the center handler's call raises before any request)
CtlWillIssue ==
    LET a0 == [t |-> now, moving |-> camera_moving, log |-> <<>>]
    IN  \/ /\ ctl.pc = "snapshot"
           /\ last_detection_results = <<>>
           /\ CheckInactivity(a0, ctl.current_time, TRUE).a.log # <<>>
        \/ /\ ctl.pc = "track"
           /\ quadrant_mode_enabled
           /\ LET object_id == Head(ctl.todo)[1]
                  det       == Head(ctl.todo)[2]
                  oid       == Str(object_id)
                  m         == MotionUpdate(position_history, track_info, oid,
                                            det.center, ctl.current_time)
                  quadrant  == GetQuadrantForPosition(det.center[1], det.center[2],
                                                      frame_width, frame_height)
              IN  /\ ShouldTriggerTracking(m.direction, m.ti[oid], now, last_ptz_time)
                  /\ HandleQuadrant(a0, object_id, det, quadrant, current_quadrant,
                                    quadrant_zoom_counter, quadrant_config,
                                    AllOk).a.log # <<>>

\* the control loop has called a PTZController method (the request is sent,
\* the thread waits for the answer or sleeps for the duration) and has not
\* returned from it; CtlSnapshot and CtlTrack are the return
CtlPtzCall ==
    /\ ctl.ptz = "none"
    /\ CtlWillIssue
    /\ ctl' = [ctl EXCEPT !.ptz = "in_call", !.cq = current_quadrant]
    /\ UNCHANGED <<flagVars, frame_count, mailboxVars, last_detections, trackerVars,
                   motionVars, stateVars, apiVars, eventVars, now, wrk, api,
                   ptzVars, tick_log, mailbox_log, stream, mot, stream, mot>>

----------------------------------------------------------------------------
(* The detection worker: _detection_worker.                                 *)

\* "while not self.detection_stop"
WrkWhile ==
    /\ wrk.pc = "w_while"
    /\ wrk' = [wrk EXCEPT !.pc = IF detection_stop THEN "exited" ELSE "w_poll"]
    /\ UNCHANGED <<flagVars, frame_count, mailboxVars, last_detections, trackerVars,
                   motionVars, stateVars, apiVars, eventVars, now, ctl, api, ptzVars,
                   tick_log, mailbox_log, stream, mot>>

\* variant: the worker leaves the frame in the slot
ConsumeKeep(pending) == pending

\* the slot after the worker has taken its frame
Consume(pending) == <<>>

\* variant: detector.detect is called inside the "with" block
PollBlockOpen(holds) == holds

\* the end of "with self.pending_frame_lock:" once the frame is copied and the
\* slot is cleared; detector.detect is called after it
PollBlockEnd(holds) == Release(holds, "pending_frame_lock")

\* under pending_frame_lock: nothing pending (sleep 0.001, continue), or the
\* pending frame is copied and the slot is set to None
WrkPoll ==
    /\ wrk.pc = "w_poll"
    /\ LockFree("pending_frame_lock", ctl.holds)
    /\ IF pending_detection_frame = <<>>
       THEN /\ wrk' = [wrk EXCEPT !.pc = "w_while",
                          !.holds = Release(Acquire(@, "pending_frame_lock"),
                                            "pending_frame_lock")]
            /\ UNCHANGED <<pending_detection_frame, mailbox_log>>
       ELSE /\ wrk' = [wrk EXCEPT !.pc = "w_detect",
                          !.detection_frame = Head(pending_detection_frame),
                          !.holds = PollBlockEnd(Acquire(@, "pending_frame_lock"))]
            /\ pending_detection_frame' = Consume(pending_detection_frame)
            /\ mailbox_log' = [mailbox_log EXCEPT
                                  !.consumed = Append(@, Head(pending_detection_frame).id)]
    /\ UNCHANGED <<flagVars, frame_count, last_detection_results, last_detections,
                   trackerVars, motionVars, stateVars, apiVars, eventVars, now, ctl,
                   api, ptzVars, tick_log, stream, mot>>

\* the filter by target class and confidence
FilterDetections(raw) ==
    SelectSeq(raw, LAMBDA d : d.class_name \in target_classes
                              /\ d.confidence >= min_confidence)

\* detections = self.detector.detect(detection_frame), filtered
WrkDetect ==
    /\ wrk.pc = "w_detect"
    /\ wrk' = [wrk EXCEPT !.pc = "w_publish", !.failed = FALSE,
                          !.detections = FilterDetections(wrk.detection_frame.content)]
    /\ mailbox_log' = [mailbox_log EXCEPT
                          !.detected = Append(@, wrk.detection_frame.id)]
    /\ UNCHANGED <<flagVars, frame_count, mailboxVars, last_detections, trackerVars,
                   motionVars, stateVars, apiVars, eventVars, now, ctl, api, ptzVars,
                   tick_log, stream, mot>>

\* ObjectDetector.detect when the model or the handling of a box raises after
\* k boxes: the exception is caught inside detect and the list built so far
\* is returned
DetectCaught(content, k) == SubSeq(content, 1, k)

\* the detector fails on the frame: either detect returns what it had
\* (raised = FALSE), or the exception reaches the worker's except clause:
\* error log, sleep 0.1, next iteration, last_detection_results untouched
WrkDetectFails(k, raised) ==
    /\ wrk.pc = "w_detect"
    /\ wrk.faults < MaxFaults
    /\ IF raised
       THEN /\ k = 0
            /\ now + worker_backoff <= MaxTime
            /\ now' = now + worker_backoff
            /\ wrk' = [wrk EXCEPT !.pc = Caught("w_while"), !.failed = TRUE,
                                  !.faults = @ + 1, !.raised = @ + 1]
       ELSE /\ k < Max(1, Len(wrk.detection_frame.content))
            /\ now' = now
            /\ wrk' = [wrk EXCEPT
                   !.pc = "w_publish", !.failed = TRUE, !.faults = @ + 1,
                   !.detections =
                       FilterDetections(DetectCaught(wrk.detection_frame.content, k))]
    /\ UNCHANGED <<flagVars, frame_count, mailboxVars, last_detections, trackerVars,
                   motionVars, stateVars, apiVars, eventVars, ctl, api, ptzVars,
                   tick_log, mailbox_log, stream, mot>>

\* under detection_results_lock: self.last_detection_results = detections
WrkPublish ==
    /\ wrk.pc = "w_publish"
    /\ LockFree("detection_results_lock", ctl.holds)
    /\ last_detection_results' = wrk.detections
    /\ wrk' = [wrk EXCEPT !.pc = "w_while",
                  !.holds = Release(Acquire(@, "detection_results_lock"),
                                    "detection_results_lock")]
    /\ UNCHANGED <<flagVars, frame_count, pending_detection_frame, last_detections,
                   trackerVars, motionVars, stateVars, apiVars, eventVars, now, ctl,
                   api, ptzVars, tick_log, mailbox_log, stream, mot>>

----------------------------------------------------------------------------
(* The API: start, stop, pause, resume, toggle_quadrant_mode and the web    *)
(* handler that sets idle_preset_override.  One caller of start and stop;   *)
(* start is taken when the threads of an earlier run have ended.            *)

ThreadEnded(pc) == pc \in {"idle", "exited"}

ApiStart ==
    /\ api.pc = "idle"
    /\ ~running
    /\ ThreadEnded(ctl.pc) /\ ThreadEnded(wrk.pc)
    /\ running' = TRUE
    /\ paused' = FALSE
    /\ detection_stop' = FALSE
    /\ last_movement_time' = now
    /\ ctl' = [ctl EXCEPT !.pc = "while", !.todo = <<>>]
    /\ wrk' = [wrk EXCEPT !.pc = "w_while"]
    /\ api' = [api EXCEPT !.stopped = FALSE, !.ctl_joined = "no",
                          !.wrk_joined = "no", !.open_at_stop = {}]
    /\ UNCHANGED <<frame_count, mailboxVars, last_detections, trackerVars, motionVars,
                   current_preset, last_ptz_time, quadrant_zoom_counter,
                   last_bbox_area, current_quadrant, apiVars, eventVars, now,
                   ptzVars, tick_log, mailbox_log, stream, mot>>

\* start() whatever has become of the threads of the run before: a thread
\* that is still alive (stop() does not wait for it longer than the join
\* timeout) goes on beside the new one.  ctl and wrk are the thread that takes
\* the steps, ctl.old and wrk.old the local state of the other thread of the
\* same loop; latest marks the thread self.thread / self.detection_thread
\* refers to.  At most two threads per loop are kept.
ApiRestart ==
    /\ api.pc = "idle"
    /\ ~running
    /\ LET Local(t) == [f \in DOMAIN t \ {"old"} |-> t[f]]
           Live(t)  == {l \in {Local(t)} \cup {t.old[i] : i \in 1..Len(t.old)} :
                           ~ThreadEnded(l.pc)}
           Fresh(t, l) ==
               l @@ [old |-> IF Live(t) = {} THEN <<>>
                             ELSE <<[(CHOOSE o \in Live(t) : TRUE)
                                       EXCEPT !.latest = FALSE]>>]
       IN  /\ Cardinality(Live(ctl)) <= 1 /\ Cardinality(Live(wrk)) <= 1
           /\ ctl' = Fresh(ctl, [Local(ctl) EXCEPT !.pc = "while", !.todo = <<>>,
                                                   !.holds = {}, !.ptz = "none",
                                                   !.latest = TRUE])
           /\ wrk' = Fresh(wrk, [Local(wrk) EXCEPT !.pc = "w_while", !.holds = {},
                                                   !.latest = TRUE])
    /\ running' = TRUE
    /\ paused' = FALSE
    /\ detection_stop' = FALSE
    /\ last_movement_time' = now
    /\ api' = [api EXCEPT !.stopped = FALSE, !.ctl_joined = "no",
                          !.wrk_joined = "no", !.open_at_stop = {}]
    /\ UNCHANGED <<frame_count, mailboxVars, last_detections, trackerVars, motionVars,
                   current_preset, last_ptz_time, quadrant_zoom_counter,
                   last_bbox_area, current_quadrant, apiVars, eventVars, now,
                   ptzVars, tick_log, mailbox_log, stream, mot>>

\* the other thread of a loop takes the next steps
ThreadSwitch(loop) ==
    /\ LET Swap(t) == [f \in DOMAIN t |->
                          IF f = "old" THEN <<[g \in DOMAIN t \ {"old"} |-> t[g]]>>
                          ELSE t.old[1][f]]
       IN  IF loop = "ctl"
           THEN ctl.old # <<>> /\ ctl' = Swap(ctl) /\ wrk' = wrk
           ELSE wrk.old # <<>> /\ wrk' = Swap(wrk) /\ ctl' = ctl
    /\ UNCHANGED <<flagVars, frame_count, mailboxVars, last_detections, trackerVars,
                   motionVars, stateVars, apiVars, eventVars, now, api, ptzVars,
                   tick_log, mailbox_log, stream, mot>>

\* variant: the detection worker is not signalled
StopFlagsControlOnly == [running |-> FALSE, detection_stop |-> FALSE]

\* the flags written by stop() before it joins
StopFlags == [running |-> FALSE, detection_stop |-> TRUE]

\* stop(): "self.running = False; self.detection_stop = True"
ApiStopSignal ==
    /\ api.pc = "idle"
    /\ running
    /\ running' = StopFlags.running
    /\ detection_stop' = StopFlags.detection_stop
    /\ api' = [api EXCEPT !.pc = "join_ctl"]
    /\ UNCHANGED <<paused, frame_count, mailboxVars, last_detections, trackerVars,
                   motionVars, stateVars, apiVars, eventVars, now, ctl, wrk, ptzVars,
                   tick_log, mailbox_log, stream, mot>>

\* the steps of a thread in which it can stay longer than a join waits: the
\* control loop in _process_frame (callbacks and actuator requests), the
\* worker in detector.detect
CanOutlastJoin(pc) == pc \in {"snapshot", "track", "w_detect"}

\* self.thread.join(timeout=5.0): the thread has ended, or the wait times out
ApiJoinCtl(timedOut) ==
    /\ api.pc = "join_ctl"
    /\ IF timedOut
       THEN /\ CanOutlastJoin(ctl.pc)
            /\ now + join_timeout <= MaxTime
            /\ now' = now + join_timeout
            /\ api' = [api EXCEPT !.pc = "join_wrk", !.ctl_joined = "timeout"]
       ELSE /\ ThreadEnded(ctl.pc)
            /\ now' = now
            /\ api' = [api EXCEPT !.pc = "join_wrk", !.ctl_joined = "ended"]
    /\ UNCHANGED <<flagVars, frame_count, mailboxVars, last_detections, trackerVars,
                   motionVars, stateVars, apiVars, eventVars, ctl, wrk, ptzVars,
                   tick_log, mailbox_log, stream, mot>>

\* self.detection_thread.join(timeout=5.0)
ApiJoinWrk(timedOut) ==
    /\ api.pc = "join_wrk"
    /\ IF timedOut
       THEN /\ CanOutlastJoin(wrk.pc)
            /\ now + join_timeout <= MaxTime
            /\ now' = now + join_timeout
            /\ api' = [api EXCEPT !.pc = "close", !.wrk_joined = "timeout"]
       ELSE /\ ThreadEnded(wrk.pc)
            /\ now' = now
            /\ api' = [api EXCEPT !.pc = "close", !.wrk_joined = "ended"]
    /\ UNCHANGED <<flagVars, frame_count, mailboxVars, last_detections, trackerVars,
                   motionVars, stateVars, apiVars, eventVars, ctl, wrk, ptzVars,
                   tick_log, mailbox_log, stream, mot>>

\* the n of event_id "event_n"
EventNumber(e) == CHOOSE n \in 1..event_counter : e.event_id = "event_" \o Str(n)

\* the events of active_events with end_time set, in the order of insertion
RECURSIVE ClosedEvents(_, _, _)
ClosedEvents(events, keys, t) ==
    IF keys = {} THEN <<>>
    ELSE LET k == CHOOSE x \in keys :
                      \A y \in keys : EventNumber(events[x]) <= EventNumber(events[y])
         IN  <<[events[k] EXCEPT !.end_time = <<t>>]>>
             \o ClosedEvents(events, keys \ {k}, t)

\* stop(): the open events are closed and active_events is cleared
ApiStopClose ==
    /\ api.pc = "close"
    /\ completed_events' = completed_events
                           \o ClosedEvents(active_events, DOMAIN active_events, now)
    /\ active_events' = <<>>
    /\ api' = [api EXCEPT !.pc = "idle", !.stopped = TRUE,
                          !.open_at_stop = {active_events[k].event_id :
                                              k \in DOMAIN active_events}]
    /\ UNCHANGED <<flagVars, frame_count, mailboxVars, last_detections, trackerVars,
                   motionVars, stateVars, apiVars, ptz_movement_count, event_counter,
                   now, ctl, wrk, ptzVars, tick_log, mailbox_log, stream, mot>>

ApiPause ==
    /\ running /\ ~paused
    /\ paused' = TRUE
    /\ UNCHANGED <<running, detection_stop, frame_count, mailboxVars, last_detections,
                   trackerVars, motionVars, stateVars, apiVars, eventVars, now, ctl,
                   wrk, api, ptzVars, tick_log, mailbox_log, stream, mot>>

ApiResume ==
    /\ paused
    /\ paused' = FALSE
    /\ UNCHANGED <<running, detection_stop, frame_count, mailboxVars, last_detections,
                   trackerVars, motionVars, stateVars, apiVars, eventVars, now, ctl,
                   wrk, api, ptzVars, tick_log, mailbox_log, stream, mot>>

\* variant: current_quadrant is reset when the mode is switched on only
QuadrantAfterToggleOnEnable(enabled, quadrant) ==
    IF enabled THEN NoQuadrant ELSE quadrant

\* "self.current_quadrant = None" in both branches of toggle_quadrant_mode
QuadrantAfterToggle(enabled, quadrant) == NoQuadrant

\* toggle_quadrant_mode(enabled), enabled one of True, False, None; it runs
\* on the caller's thread between two steps of the control loop.  api.toggle
\* keeps the latest keep calls: argument, current_quadrant before the call,
\* value returned, and the two fields as the call leaves them
ToggleCall(enabled, keep) ==
    /\ quadrant_mode_enabled' = IF enabled = "None" THEN ~quadrant_mode_enabled
                                ELSE (enabled = "True")
    /\ current_quadrant' = QuadrantAfterToggle(quadrant_mode_enabled',
                                               current_quadrant)
    /\ quadrant_zoom_counter' = IF quadrant_mode_enabled' THEN 0
                                ELSE quadrant_zoom_counter
    /\ tick_log' = [tick_log EXCEPT !.q_step = FALSE, !.q_last = NoQuadrant]
    /\ api' = [api EXCEPT !.toggle =
                  IF keep = 0 THEN @
                  ELSE Append(IF Len(@) < keep THEN @ ELSE Tail(@),
                              [enabled |-> enabled, before |-> current_quadrant,
                               returned |-> quadrant_mode_enabled',
                               left |-> <<quadrant_mode_enabled',
                                          current_quadrant'>>])]
    /\ UNCHANGED <<flagVars, frame_count, mailboxVars, last_detections, trackerVars,
                   motionVars, current_preset, last_ptz_time, last_movement_time,
                   last_bbox_area, idle_preset_override, quadrant_config, eventVars,
                   now, ctl, wrk, ptzVars, mailbox_log, stream, mot>>

\* the call with no record kept of it
ToggleQuadrantMode(enabled) == ToggleCall(enabled, 0)

\* web handler set_home_preset: tracking_engine.idle_preset_override = preset
SetIdleOverride(preset) ==
    /\ idle_preset_override # preset
    /\ idle_preset_override' = preset
    /\ UNCHANGED <<flagVars, frame_count, mailboxVars, last_detections, trackerVars,
                   motionVars, stateVars, quadrant_mode_enabled, quadrant_config,
                   eventVars, now, ctl, wrk, api, ptzVars, tick_log, mailbox_log,
                   stream, mot>>

\* a command sent by a web handler through the PTZController it shares with
\* the engine; ctl_in_call: the control loop was inside a command of its own
ApiSent(op, arg, ok) ==
    [op |-> op, arg |-> arg, ok |-> ok, t |-> now,
     ctl_in_call |-> (ctl.ptz = "in_call")]

\* web handler move_to_preset: ptz_controller.goto_preset(preset_token)
ApiMoveToPreset(preset, ok) ==
    /\ Len(api.sent) < MaxApiCommands
    /\ camera_moving' = PtzGotoPreset([t |-> now, moving |-> camera_moving,
                                       log |-> <<>>], preset, ok).moving
    /\ api' = [api EXCEPT !.sent = Append(@, ApiSent("goto_preset", preset, ok))]
    /\ UNCHANGED <<flagVars, frame_count, mailboxVars, last_detections, trackerVars,
                   motionVars, stateVars, apiVars, eventVars, now, ctl, wrk,
                   ptz_log, prev_cmd, tick_log, mailbox_log, stream, mot>>

\* web handler stop_camera: ptz_controller.stop()
ApiStopCamera(ok) ==
    /\ Len(api.sent) < MaxApiCommands
    /\ camera_moving' = PtzStop(camera_moving, ok)
    /\ api' = [api EXCEPT !.sent = Append(@, ApiSent("stop", "None", ok))]
    /\ UNCHANGED <<flagVars, frame_count, mailboxVars, last_detections, trackerVars,
                   motionVars, stateVars, apiVars, eventVars, now, ctl, wrk,
                   ptz_log, prev_cmd, tick_log, mailbox_log, stream, mot>>

----------------------------------------------------------------------------
(* Specifications.                                                          *)

FrameGaps == {0, 50}       \* time a frame read takes: buffered, or 2.5 s

\* the identity tracker under long runs of ticks: no failures, no clock
InitTracker == InitWith({DefaultQuadrantConfig})
NextTracker ==
    \/ ApiStart
    \/ CtlWhile
    \/ \E content \in TrackerScenes :
          CtlRead(TRUE, 0, MaxTrackerFrames, content, MaxSceneFrames, MaxLag)
    \/ CtlSubmit
    \/ CtlSnapshot(TRUE)
    \/ CtlTrack(AllOk)
    \/ WrkWhile
    \/ WrkPoll
    \/ WrkDetect
    \/ WrkPublish
SpecTracker == InitTracker /\ [][NextTracker]_vars

\* the identity tracker under short runs of ticks with every scene
InitIdentity == InitWith({DefaultQuadrantConfig})
NextIdentity ==
    \/ ApiStart
    \/ CtlWhile
    \/ \E content \in IdentityScenes :
          CtlRead(TRUE, 0, MaxIdentityFrames, content, MaxIdentityFrames,
                  MaxIdentityFrames)
    \/ CtlSubmit
    \/ CtlSnapshot(TRUE)
    \/ CtlTrack(AllOk)
    \/ WrkWhile
    \/ WrkPoll
    \/ WrkDetect
    \/ WrkPublish
SpecIdentity == InitIdentity /\ [][NextIdentity]_vars

\* the control loop with failing actuator requests and the mode switches
InitControl == InitWith(QuadrantConfigs)
NextControl ==
    \/ ApiStart
    \/ CtlWhile
    \/ \E content \in ControlScenes :
          CtlRead(TRUE, 0, MaxFrames, content, MaxFrames, MaxFrames)
    \/ CtlSubmit
    \/ CtlSnapshot(TRUE)
    \/ \E oc \in Outcomes : CtlTrack(oc)
    \/ WrkWhile
    \/ WrkPoll
    \/ WrkDetect
    \/ WrkPublish
    \/ \E enabled \in {"True", "False", "None"} : ToggleQuadrantMode(enabled)
SpecControl == InitControl /\ [][NextControl]_vars

\* the control loop with the clock: inactivity and the return to the idle preset
InitHome == InitWith({DefaultQuadrantConfig})
NextHome ==
    \/ ApiStart
    \/ CtlWhile
    \/ \E dt \in FrameGaps, content \in HomeScenes :
          CtlRead(TRUE, dt, MaxHomeFrames, content, MaxHomeFrames, MaxHomeFrames)
    \/ CtlSubmit
    \/ \E ok \in BOOLEAN : CtlSnapshot(ok)
    \/ CtlTrack(AllOk)
    \/ WrkWhile
    \/ WrkPoll
    \/ WrkDetect
    \/ WrkPublish
    \/ \E preset \in OverridePresets : SetIdleOverride(preset)
SpecHome == InitHome /\ [][NextHome]_vars

\* pause and resume against the control loop
InitPause == InitWith({DefaultQuadrantConfig})
NextPause ==
    \/ ApiStart
    \/ ApiPause
    \/ ApiResume
    \/ CtlWhile
    \/ \E dt \in FrameGaps, content \in EngineScenes :
          CtlRead(TRUE, dt, MaxFrames, content, MaxFrames, MaxFrames)
    \/ CtlSubmit
    \/ CtlSnapshot(TRUE)
    \/ CtlTrack(AllOk)
    \/ WrkWhile
    \/ WrkPoll
    \/ WrkDetect
    \/ WrkPublish
SpecPause == InitPause /\ [][NextPause]_vars

\* the web handlers that use the actuator against the control loop
ApiScenes == {<<>>, <<Person(P1)>>}
InitApi == InitWith({DefaultQuadrantConfig})
NextApi ==
    \/ ApiStart
    \/ CtlWhile
    \/ \E content \in ApiScenes :
          CtlRead(TRUE, 0, MaxApiFrames, content, MaxApiFrames, MaxApiFrames)
    \/ CtlSubmit
    \/ CtlSnapshot(TRUE)
    \/ CtlPtzCall
    \/ CtlTrack(AllOk)
    \/ WrkWhile
    \/ WrkPoll
    \/ WrkDetect
    \/ WrkPublish
    \/ \E enabled \in {"True", "False"} : ToggleQuadrantMode(enabled)
    \/ \E ok \in BOOLEAN : ApiMoveToPreset("Preset001", ok)
    \/ \E ok \in BOOLEAN : ApiStopCamera(ok)
SpecApi == InitApi /\ [][NextApi]_vars

\* both loops with a failing detector and exceptions inside an iteration
FaultScenes == {<<>>, <<Person(P1)>>, <<Person(P1), Person(P2)>>}
InitFaults == InitWith({DefaultQuadrantConfig})
NextFaults ==
    \/ ApiStart
    \/ CtlWhile
    \/ \E content \in FaultScenes :
          CtlRead(TRUE, 0, MaxFaultFrames, content, MaxFaultFrames, MaxFaultFrames)
    \/ CtlSubmit
    \/ CtlSnapshot(TRUE)
    \/ CtlTrack(AllOk)
    \/ CtlRaise
    \/ WrkWhile
    \/ WrkPoll
    \/ WrkDetect
    \/ \E k \in 0..1, raised \in BOOLEAN : WrkDetectFails(k, raised)
    \/ WrkPublish
SpecFaults == InitFaults /\ [][NextFaults]_vars

\* the velocity computation of the two handlers on its own: the tracked
\* detection the handler is called with is drawn from subject positions at the
\* centre, around the edge of the dead zone, at and beyond the frame edge
VelocityXs == {0, 100, 200, 290, 300, 301, 310, 320, 330, 339, 340, 341, 350, 500,
               640, 700}
VelocityYs == {0, 100, 220, 221, 240, 259, 260, 400, 480, 500}
VelocityInputs ==
    {<<<<0, Person(<<x, y>>)>>>> : x \in VelocityXs, y \in VelocityYs}

\* pan and tilt of _handle_tracking_action for a subject at rest at (x, y)
CenterPanAt(x, conf) == CenterPan(Predict(x, 0, 1, conf, frame_width))
CenterTiltAt(y, conf) == CenterTilt(Predict(y, 0, 1, conf, frame_height))

\* the arguments _handle_tracking_action computes for continuous_move
CenterVelocity ==
    /\ ctl.pc = "idle" /\ ctl.todo # <<>> /\ ptz_log = <<>>
    /\ LET det  == Head(ctl.todo)[2]
           pan  == CenterPanAt(det.center[1], det.confidence)
           tilt == CenterTiltAt(det.center[2], det.confidence)
           a    == PtzContinuousMove([t |-> now, moving |-> FALSE, log |-> <<>>],
                                     0, pan # 0 \/ tilt # 0, 0, TRUE, TRUE, "center")
       IN  ptz_log' = WithVelocity(a, pan, tilt,
                                   <<2 * det.center[1] - frame_width,
                                     2 * det.center[2] - frame_height>>).log
    /\ UNCHANGED <<flagVars, frame_count, mailboxVars, last_detections, trackerVars,
                   motionVars, stateVars, apiVars, eventVars, now, ctl, wrk, api,
                   camera_moving, prev_cmd, tick_log, mailbox_log, stream, mot>>

\* the arguments _handle_quadrant_tracking_action computes for continuous_move
FineVelocity ==
    /\ ctl.pc = "idle" /\ ctl.todo # <<>> /\ ptz_log = <<>>
    /\ LET det == Head(ctl.todo)[2]
           a   == PtzContinuousMove([t |-> now, moving |-> FALSE, log |-> <<>>],
                                    0, TRUE, 0, TRUE, TRUE, "fine")
       IN  ptz_log' = WithVelocity(a, FinePan(det.center[1], frame_width),
                                   FineTilt(det.center[2], frame_height),
                                   <<2 * det.center[1] - frame_width,
                                     2 * det.center[2] - frame_height>>).log
    /\ UNCHANGED <<flagVars, frame_count, mailboxVars, last_detections, trackerVars,
                   motionVars, stateVars, apiVars, eventVars, now, ctl, wrk, api,
                   camera_moving, prev_cmd, tick_log, mailbox_log, stream, mot>>

InitVelocity == InitFrom({DefaultQuadrantConfig}, VelocityInputs)
NextVelocity ==
    \/ CenterVelocity
    \/ FineVelocity
SpecVelocity == InitVelocity /\ [][NextVelocity]_vars

\* start and stop in any order, a stop that gives up waiting included
MaxRestartFrames == 3
SpecRestart ==
    /\ InitWith({DefaultQuadrantConfig})
    /\ [][\/ ApiRestart
          \/ ApiStopSignal
          \/ (ctl.latest /\ \E timedOut \in BOOLEAN : ApiJoinCtl(timedOut))
          \/ (wrk.latest /\ \E timedOut \in BOOLEAN : ApiJoinWrk(timedOut))
          \/ ApiStopClose
          \/ \E loop \in {"ctl", "wrk"} : ThreadSwitch(loop)
          \/ CtlWhile
          \/ \E content \in ApiScenes :
                CtlRead(TRUE, 0, MaxRestartFrames, content, MaxRestartFrames,
                        MaxRestartFrames)
          \/ CtlSubmit
          \/ CtlSnapshot(TRUE)
          \/ CtlTrack(AllOk)
          \/ WrkWhile
          \/ WrkPoll
          \/ WrkDetect
          \/ WrkPublish]_vars

\* the prediction and the zoom of _handle_tracking_action on their own: the
\* handler is called for a subject at x with the velocity d (pixels per
\* 0.05 s), the confidence and the box area given; ctl.content keeps what the
\* latest call computed and the box area of the call before it
CenterCall(x, d, conf, area) ==
    /\ ctl.pc = "idle"
    /\ ctl' = [ctl EXCEPT !.content =
                  <<[x |-> x, d |-> d, confidence |-> conf,
                     factor |-> ConfidenceFactor(conf),
                     predicted |-> Predict(x, d, 1, conf, frame_width),
                     bbox_area |-> area,
                     prev |-> IF ctl.content = <<>> THEN <<>>
                              ELSE <<ctl.content[1].bbox_area>>,
                     zoom |-> ZoomVelocity(area, last_bbox_area)]>>]
    /\ last_bbox_area' = IF area > 0 THEN <<area>> ELSE last_bbox_area
    /\ UNCHANGED <<flagVars, frame_count, mailboxVars, last_detections, trackerVars,
                   motionVars, current_preset, last_ptz_time, last_movement_time,
                   quadrant_zoom_counter, current_quadrant, apiVars, eventVars, now,
                   wrk, api, ptzVars, tick_log, mailbox_log, stream, mot>>

SpecCenter ==
    /\ InitWith({DefaultQuadrantConfig})
    /\ [][\E x \in {0, 320, 640}, d \in {-400, -10, 0, 10, 400},
             conf \in {50, 55, 56, 75, 90, 100},
             area \in {0, 4000, 4100, 5000, 40000, 50000} :
             CenterCall(x, d, conf, area)]_vars

\* toggle_quadrant_mode against the control loop, the latest two calls kept
ToggleScenes == {<<>>, <<Person(P1)>>}
ToggleCallsKept == 2
InitToggle == InitWith({DefaultQuadrantConfig})
NextToggle ==
    \/ ApiStart
    \/ CtlWhile
    \/ \E content \in ToggleScenes :
          CtlRead(TRUE, 0, MaxToggleFrames, content, MaxToggleFrames,
                  MaxToggleFrames)
    \/ CtlSubmit
    \/ CtlSnapshot(TRUE)
    \/ CtlTrack(AllOk)
    \/ WrkWhile
    \/ WrkPoll
    \/ WrkDetect
    \/ WrkPublish
    \/ \E enabled \in {"True", "False", "None"} : ToggleCall(enabled, ToggleCallsKept)
SpecToggle == InitToggle /\ [][NextToggle]_vars

\* _assign_object_ids called on its own, also with an empty list (the branch
\* that evicts), from the tracker as constructed
AssignScenes == {<<>>, <<Person(P1)>>, <<Person(P2)>>, <<Person(P3)>>, <<Person(P1), Person(P4)>>,
                 <<Person(P1), Person(P2)>>}

\* assignments = self._assign_object_ids(detections)
AssignCall(detections) ==
    /\ ctl.pc = "idle"
    /\ LET r == AssignObjectIds(detections, object_centroids, centroid_ages,
                                next_object_id)
       IN  /\ r.next <= MaxObjects
           /\ \A oid \in DOMAIN r.ages : r.ages[oid] <= MaxAssignAge
           /\ object_centroids' = r.centroids
           /\ centroid_ages' = r.ages
           /\ next_object_id' = r.next
           /\ ctl' = [ctl EXCEPT !.content = detections]
           /\ tick_log' = [tick_log EXCEPT
                  !.ndets = Len(detections), !.assigned = r.assignments,
                  !.centroids0 = object_centroids,
                  !.ages0 = centroid_ages, !.ages1 = r.ages]
    /\ UNCHANGED <<flagVars, frame_count, mailboxVars, last_detections, motionVars,
                   stateVars, apiVars, eventVars, now, wrk, api, ptzVars,
                   mailbox_log, stream, mot>>

NextAssign == \E detections \in AssignScenes : AssignCall(detections)
SpecAssign == InitWith({DefaultQuadrantConfig}) /\ [][NextAssign]_vars

\* MotionTracker.update called on its own for one identity: the subject starts
\* at the frame centre and moves by one of these steps (pixels along x, y
\* constant) between two updates, which are 0.05 s apart
MotionSteps == {-15, -3, 0, 3, 15}

\* direction = tracker.update("obj_1", center, timestamp); ctl.content keeps
\* the samples passed so far
MotionCall(step) ==
    /\ ctl.pc = "idle"
    /\ Len(ctl.content) < MaxUpdates
    /\ ctl.content = <<>> => step = 0
    /\ LET center == IF ctl.content = <<>> THEN <<frame_width \div 2, frame_height \div 2>>
                     ELSE <<ctl.content[Len(ctl.content)][1] + step,
                            ctl.content[Len(ctl.content)][2]>>
           m == MotionUpdate(position_history, track_info, "obj_1", center, now)
       IN  /\ position_history' = m.ph
           /\ track_info' = m.ti
           /\ ctl' = [ctl EXCEPT !.content = Append(@, <<center[1], center[2], now>>)]
    /\ now' = now + 1
    /\ UNCHANGED <<flagVars, frame_count, mailboxVars, last_detections, trackerVars,
                   stateVars, apiVars, eventVars, wrk, api, ptzVars, tick_log,
                   mailbox_log, stream, mot>>

NextMotion == \E step \in MotionSteps : MotionCall(step)
SpecMotion == InitWith({DefaultQuadrantConfig}) /\ [][NextMotion]_vars

\* _calculate_direction on its own: the centres passed to update for one
\* identity, 1 to 7 of them, from the frame centre over a detour to a point
\* whose offset from the first is on, below or above the two thresholds
DirectionInputs ==
    LET offsets == {-50, -40, -30, -16, -12, 0, 12, 16, 30, 40, 50}
    IN  {<<<<320, 240>>>> \o [i \in 1..n |-> <<330, 240>>]
                          \o <<<<320 + dx, 240 + dy>>>> :
            n \in {2, 3, 4, 5}, dx \in offsets, dy \in offsets}
        \cup {<<<<320 + dx, 240>>>> : dx \in offsets}

\* direction = tracker.update("obj_1", center, timestamp) with the next centre
DirectionCall ==
    /\ ctl.pc = "idle" /\ ctl.todo # <<>>
    /\ LET center == Head(ctl.todo)
           m == MotionUpdate(position_history, track_info, "obj_1", center, now)
       IN  /\ position_history' = m.ph
           /\ track_info' = m.ti
           /\ ctl' = [ctl EXCEPT !.todo = Tail(@),
                                 !.content = Append(@, <<center[1], center[2], now>>)]
    /\ now' = now + 1
    /\ UNCHANGED <<flagVars, frame_count, mailboxVars, last_detections, trackerVars,
                   stateVars, apiVars, eventVars, wrk, api, ptzVars, tick_log,
                   mailbox_log, stream, mot>>

SpecDirection == InitFrom({DefaultQuadrantConfig}, DirectionInputs) /\ [][DirectionCall]_vars

\* VideoStreamHandler: the capture thread (_update) against one reader.
\* Frames are numbered in the order the capture receives them.

\* start(): the stream is connected and the capture thread is started
StreamStart ==
    /\ stream.cap.pc = "idle"
    /\ stream' = [stream EXCEPT !.cap.pc = "c_read"]
    /\ UNCHANGED <<flagVars, frame_count, mailboxVars, last_detections, trackerVars,
                   motionVars, stateVars, apiVars, eventVars, now, ctl, wrk, api,
                   ptzVars, tick_log, mailbox_log, mot>>

\* "ret, frame = self.capture.read()", frames_received += 1, and the test
\* "if not self.frame_queue.full()"
CapArrive ==
    /\ stream.cap.pc = "c_read"
    /\ stream.frames_received < MaxStreamFrames
    /\ stream' = [stream EXCEPT
           !.frames_received = @ + 1,
           !.cap = [pc |-> IF Len(stream.frame_queue) < buffer_size
                           THEN "c_put" ELSE "c_drop",
                    frame |-> stream.frames_received + 1]]
    /\ UNCHANGED <<flagVars, frame_count, mailboxVars, last_detections, trackerVars,
                   motionVars, stateVars, apiVars, eventVars, now, ctl, wrk, api,
                   ptzVars, tick_log, mailbox_log, mot>>

\* variant: the dropped frame is counted and left in the queue
CapDropCounted ==
    /\ stream.cap.pc = "c_drop"
    /\ stream' = [stream EXCEPT !.frames_dropped = @ + 1, !.cap.pc = "c_put"]
    /\ UNCHANGED <<flagVars, frame_count, mailboxVars, last_detections, trackerVars,
                   motionVars, stateVars, apiVars, eventVars, now, ctl, wrk, api,
                   ptzVars, tick_log, mailbox_log, mot>>

\* the branch of a full queue: "self.frame_queue.get_nowait()" and
\* frames_dropped += 1, or Empty (the reader has emptied the queue since the
\* test), which is passed over
CapDrop ==
    /\ stream.cap.pc = "c_drop"
    /\ stream' = IF stream.frame_queue # <<>>
                 THEN [stream EXCEPT !.frame_queue = Tail(@),
                                     !.frames_dropped = @ + 1, !.cap.pc = "c_put"]
                 ELSE [stream EXCEPT !.cap.pc = "c_put"]
    /\ UNCHANGED <<flagVars, frame_count, mailboxVars, last_detections, trackerVars,
                   motionVars, stateVars, apiVars, eventVars, now, ctl, wrk, api,
                   ptzVars, tick_log, mailbox_log, mot>>

\* "self.frame_queue.put(frame)": Queue.put waits while the queue is full
CapPut ==
    /\ stream.cap.pc = "c_put"
    /\ Len(stream.frame_queue) < buffer_size
    /\ stream' = [stream EXCEPT !.frame_queue = Append(@, stream.cap.frame),
                                !.cap.pc = "c_read"]
    /\ UNCHANGED <<flagVars, frame_count, mailboxVars, last_detections, trackerVars,
                   motionVars, stateVars, apiVars, eventVars, now, ctl, wrk, api,
                   ptzVars, tick_log, mailbox_log, mot>>

\* read(timeout): "self.frame_queue.get(timeout=timeout)" returns the oldest
\* frame as soon as there is one; Empty is raised when the queue is empty at
\* the end of the timeout, and None is returned
StreamRead ==
    /\ IF stream.frame_queue # <<>>
       THEN stream' = [stream EXCEPT !.frame_queue = Tail(@),
                                     !.delivered = Append(@, Head(stream.frame_queue)),
                                     !.last = <<Head(stream.frame_queue)>>]
       ELSE /\ stream.nones < MaxWaits
            /\ stream' = [stream EXCEPT !.nones = @ + 1, !.last = <<>>]
    /\ UNCHANGED <<flagVars, frame_count, mailboxVars, last_detections, trackerVars,
                   motionVars, stateVars, apiVars, eventVars, now, ctl, wrk, api,
                   ptzVars, tick_log, mailbox_log, mot>>

NextStream ==
    \/ StreamStart
    \/ CapArrive
    \/ CapDrop
    \/ CapPut
    \/ StreamRead
SpecStream == InitWith({DefaultQuadrantConfig}) /\ [][NextStream]_vars

\* MultiObjectTracker.update(detections, timestamp) with _match_detections and
\* _age_tracks, on the tracker state m and the tables ph, ti of its
\* MotionTracker.  A detection index 0 stands for None.
MotUpdate(m, ph, ti, detections, ts) ==
    LET key(n) == "track_" \o Str(n)
        \* list(self.last_positions.keys()): the order of insertion
        track_ids == SelectSeq([n \in 1..(m.next_id - 1) |-> key(n)],
                               LAMBDA k : k \in DOMAIN m.last_positions)
        cost(k, j) == Dist2(detections[j], m.last_positions[k])
        \* "for j in range(len(detections))": the first unused detection of
        \* least cost
        RECURSIVE best(_, _, _, _)
        best(k, j, used, b) ==
            IF j > Len(detections) THEN b
            ELSE best(k, j + 1, used,
                      IF j \notin used /\ (b = 0 \/ cost(k, j) < cost(k, b))
                      THEN j ELSE b)
        \* "for i, track_id in enumerate(track_ids)": greedy, track by track
        RECURSIVE match(_, _, _)
        match(ids, used, asg) ==
            IF ids = <<>> THEN asg
            ELSE LET k  == Head(ids)
                     b  == best(k, 1, used, 0)
                     ok == b # 0 /\ cost(k, b) < max_distance * max_distance
                 IN  match(Tail(ids), IF ok THEN used \cup {b} ELSE used,
                           Put(asg, k, IF ok THEN b ELSE 0))
        assignments == IF track_ids = <<>> \/ detections = <<>> THEN <<>>
                       ELSE match(track_ids, {}, <<>>)
        track(st, k, p) ==
            LET mu == MotionUpdate(st.ph, st.ti, k, p, ts)
            IN  [ph |-> mu.ph, ti |-> mu.ti, ages |-> Put(st.ages, k, 0),
                 pos |-> Put(st.pos, k, p),
                 results |-> Put(st.results, k, <<p, mu.direction>>),
                 next |-> st.next]
        \* "for track_id, detection_idx in assignments.items()"
        RECURSIVE upd(_, _)
        upd(ks, st) ==
            IF ks = <<>> THEN st
            ELSE upd(Tail(ks), IF assignments[Head(ks)] = 0 THEN st
                               ELSE track(st, Head(ks),
                                          detections[assignments[Head(ks)]]))
        matched_indices == {assignments[k] : k \in DOMAIN assignments}
        \* "for i, detection in enumerate(detections)": new tracks
        RECURSIVE create(_, _)
        create(i, st) ==
            IF i > Len(detections) THEN st
            ELSE create(i + 1, IF i \in matched_indices THEN st
                               ELSE [track(st, key(st.next), detections[i])
                                        EXCEPT !.next = @ + 1])
        s0 == [ph |-> ph, ti |-> ti, ages |-> m.track_ages, pos |-> m.last_positions,
               results |-> <<>>, next |-> m.next_id]
        s1 == upd(IF assignments = <<>> THEN <<>> ELSE track_ids, s0)
        s2 == create(1, s1)
        \* _age_tracks
        aged      == [k \in DOMAIN s2.ages |-> s2.ages[k] + 1]
        to_remove == {k \in DOMAIN aged : aged[k] > max_age}
    IN  [mot |-> [next_id |-> s2.next, track_ages |-> Drop(aged, to_remove),
                  last_positions |-> Drop(s2.pos, to_remove),
                  detections |-> detections, results |-> s2.results],
         ph  |-> Drop(s2.ph, to_remove \cap DOMAIN s2.ph),
         ti  |-> Drop(s2.ti, to_remove \cap DOMAIN s2.ti)]

\* results = multi_tracker.update(detections, timestamp) on a tracker with a
\* MotionTracker of its own
MotCall(detections) ==
    /\ ctl.pc = "idle"
    /\ now < Epoch + MaxMotCalls
    /\ LET r == MotUpdate(mot, position_history, track_info, detections, now)
       IN  /\ mot' = r.mot
           /\ position_history' = r.ph
           /\ track_info' = r.ti
    /\ now' = now + 1
    /\ UNCHANGED <<flagVars, frame_count, mailboxVars, last_detections, trackerVars,
                   stateVars, apiVars, eventVars, ctl, wrk, api, ptzVars, tick_log,
                   mailbox_log, stream>>

NextMot ==
    \E detections \in {<<>>, <<P1>>, <<P3>>, <<P1, P3>>, <<P1, <<500, 400>>>>} :
        MotCall(detections)
SpecMot == InitWith({DefaultQuadrantConfig}) /\ [][NextMot]_vars

\* the engine with start and stop against both loops
Init == InitWith({DefaultQuadrantConfig})
Next ==
    \/ ApiStart
    \/ ApiStopSignal
    \/ \E timedOut \in BOOLEAN : ApiJoinCtl(timedOut)
    \/ \E timedOut \in BOOLEAN : ApiJoinWrk(timedOut)
    \/ ApiStopClose
    \/ CtlWhile
    \/ \E got \in BOOLEAN, content \in EngineScenes :
          CtlRead(got, 0, MaxEngineFrames, content, MaxEngineFrames, MaxEngineFrames)
    \/ CtlSubmit
    \/ CtlSnapshot(TRUE)
    \/ CtlTrack(AllOk)
    \/ WrkWhile
    \/ WrkPoll
    \/ WrkDetect
    \/ WrkPublish
Spec == Init /\ [][Next]_vars

----------------------------------------------------------------------------
(* Properties.                                                              *)

IsMove(c)  == c.op = "continuous_move" /\ c.ok /\ c.nonzero
RelativeMoves(log) == Len(SelectSeq(log, LAMBDA c : c.op = "relative_move"))
SingleTicks ==
    /\ Len(tick_log.prev_assigned) = 1
    /\ Len(tick_log.assigned) = 1
    /\ Dist2(tick_log.prev_assigned[1][2].center, tick_log.assigned[1][2].center)
          < max_centroid_distance * max_centroid_distance
IdentityKept == tick_log.assigned[1][1] = tick_log.prev_assigned[1][1]
\* no other identity is as near to the new centre as the detection's own
OwnIsNearest ==
    LET own == tick_log.prev_assigned[1][1]
        c   == tick_log.assigned[1][2].center
    IN  \A o \in DOMAIN tick_log.centroids0 \ {own} :
            Dist2(c, tick_log.centroids0[o]) > Dist2(c, tick_log.centroids0[own])

\* C1: every non-zero continuous_move that the controller has issued and that
\* has returned was followed by a stop that reached the actuator, so the
\* camera is not moving once the call is over.
C1_SelfTerminates ==
    /\ ~camera_moving
    /\ \A i \in 1..Len(ptz_log) : IsMove(ptz_log[i]) => ptz_log[i].stopped

\* C2: two commands issued for the same identity are at least
\* center_tracking_cooldown apart, within a step and from one step to the next.
C2_Cooldown ==
    /\ \A i, j \in 1..Len(ptz_log) :
          (i < j /\ ptz_log[i].ident # NoIdent /\ ptz_log[i].ident = ptz_log[j].ident)
             => ptz_log[j].t - ptz_log[i].t >= center_tracking_cooldown
    /\ \A i \in 1..Len(ptz_log), k \in 1..Len(prev_cmd) :
          prev_cmd[k].ident = ptz_log[i].ident
             => ptz_log[i].t - prev_cmd[k].t >= center_tracking_cooldown

C4_Mailbox ==
    /\ Len(pending_detection_frame) <= 1
    /\ \A i \in 1..Len(pending_detection_frame), f \in mailbox_log.overwritten :
          pending_detection_frame[i].id > f
    /\ \A i, j \in 1..Len(mailbox_log.consumed) :
          i < j => mailbox_log.consumed[i] < mailbox_log.consumed[j]
    /\ \A i \in 1..Len(mailbox_log.detected) :
          mailbox_log.detected[i] \notin mailbox_log.overwritten
\* a frame was overwritten in the slot and a later one went to the detector
C4_Witness ==
    /\ mailbox_log.overwritten # {}
    /\ \E i \in 1..Len(mailbox_log.detected) :
          \A f \in mailbox_log.overwritten : mailbox_log.detected[i] > f

\* C5 as stated: one detection on consecutive ticks, moving less than
\* max_centroid_distance, keeps its identity whatever else the tracker holds.
C5_Stability == SingleTicks => IdentityKept
\* C5: it keeps its identity when no other identity held by the tracker is
\* as near to its new centre as its own last centre.
C5_StabilityNearest == (SingleTicks /\ OwnIsNearest) => IdentityKept
\* a moved detection kept its identity next to another, unmatched identity
C5_Witness ==
    /\ SingleTicks /\ OwnIsNearest /\ IdentityKept
    /\ tick_log.assigned[1][2].center # tick_log.prev_assigned[1][2].center
    /\ Cardinality(DOMAIN tick_log.centroids0) >= 2

\* C6: no identity older than centroid_max_age is left in the tracker.
C6_Evicted ==
    /\ DOMAIN object_centroids = DOMAIN centroid_ages
    /\ \A oid \in DOMAIN centroid_ages : centroid_ages[oid] <= centroid_max_age

\* C7: after more than centroid_max_age consecutive ticks without detections
\* the tracker holds no identity.
C7_EmptyEvicts ==
    (tick_log.done /\ tick_log.empty_streak > centroid_max_age)
        => DOMAIN object_centroids = {}

\* C8: after a tick the identities of the tracker are the keys of the motion
\* tracker, and an identity older than centroid_max_age is in neither.
C8_LockStep ==
    tick_log.done =>
        /\ {Str(oid) : oid \in DOMAIN object_centroids} = DOMAIN track_info
        /\ DOMAIN track_info = DOMAIN position_history
        /\ \A oid \in DOMAIN tick_log.ages0 :
              (tick_log.ages0[oid] > centroid_max_age
               /\ \A k \in 1..Len(tick_log.assigned) : tick_log.assigned[k][1] # oid)
                  => /\ oid \notin DOMAIN object_centroids
                     /\ Str(oid) \notin DOMAIN track_info

\* C9: a tick on which no action fired, inactivity_timeout after the last
\* one, issues goto_preset to the override or home preset (unless the same
\* preset was sent within the last second).
C9_HomeReturn ==
    (/\ tick_log.done /\ ~tick_log.fired
     /\ tick_log.t0 - tick_log.lmt0 >= inactivity_timeout
     /\ \/ tick_log.target # tick_log.preset0
        \/ tick_log.t0 - tick_log.lpt0 > home_reissue_gap)
        => tick_log.home = <<tick_log.target>>

C11_SingleIssuer ==
    \A i \in 1..Len(api.sent) : ~api.sent[i].ctl_in_call

\* a step taken by the control-loop thread, by the detection worker
ByControlLoop == ctl.pc \notin {"idle", "exited"} /\ ctl' # ctl
ByWorker == wrk.pc \notin {"idle", "exited"} /\ wrk' # wrk

\* C12: while the control loop runs, the fields of the engine state are
\* written by the control-loop thread only, and the detections snapshot is
\* written by the detection worker only; no caller of toggle_quadrant_mode or
\* of the idle override writes a field the control loop writes or owns.
C12_SingleWriter ==
    [][ /\ (/\ ctl.pc \notin {"idle", "exited"}
            /\ <<current_preset, last_ptz_time, last_movement_time,
                 quadrant_mode_enabled, current_quadrant, idle_preset_override>>'
               # <<current_preset, last_ptz_time, last_movement_time,
                   quadrant_mode_enabled, current_quadrant, idle_preset_override>>)
           => ByControlLoop
        /\ (last_detection_results' # last_detection_results) => ByWorker ]_vars

\* C13: when the detector fails on a frame (detect returns without a result
\* or the call raises in the worker), the snapshot the control loop reads
\* next is empty, not the result of an earlier frame, and neither loop stops.
C13_FailureIsEmpty ==
    /\ (wrk.failed /\ wrk.pc \in {"w_while", "w_poll"})
          => last_detection_results = <<>>
    /\ wrk.faults > 0 => (wrk.pc # "exited" /\ ctl.pc # "exited")

\* a tracking command of the latest control-loop step that the actuator refused
FailedTracking(log) ==
    \E i \in 1..Len(log) : log[i].ident # NoIdent /\ ~log[i].ok

\* C14: when a command of a tracking action fails, the step neither opens or
\* updates an event nor counts a movement, the loop goes on, and the first
\* command of a later step is at least the cooldown after the failed one.
C14_FailureGated ==
    [][ /\ (ptz_log' # ptz_log /\ FailedTracking(ptz_log'))
             => /\ ptz_movement_count' = ptz_movement_count
                /\ active_events' = active_events
                /\ ctl'.pc \in {"while", "track"}
        /\ (/\ ptz_log' # <<>>
            /\ ptz_log'[1].ident # NoIdent
            /\ prev_cmd' # <<>>
            /\ ~prev_cmd'[1].ok)
             => ptz_log'[1].t - prev_cmd'[1].t >= center_tracking_cooldown ]_vars

\* C15: an exception inside an iteration of the control loop or of the
\* detection worker is caught at the loop: the thread has not ended, running
\* is still true, the thread holds no lock, and the backoff has passed.
C15_CaughtAtBoundary ==
    /\ ctl.raised > 0 => /\ ctl.pc # "exited" /\ running /\ ctl.holds = {}
                         /\ now >= Epoch + loop_backoff
    /\ wrk.raised > 0 => /\ wrk.pc # "exited" /\ running /\ wrk.holds = {}
                         /\ now >= Epoch + worker_backoff
\* after an exception in each loop the control loop processes a later frame
\* and the worker detects a later frame
C15_Witness ==
    /\ ctl.raised > 0 /\ wrk.raised > 0
    /\ ctl.pc = "snapshot" /\ ctl.frame = MaxFaultFrames
    /\ wrk.pc = "w_publish" /\ ~wrk.failed

\* C16: while the worker is inside detector.detect it holds neither the lock
\* of the frame mailbox nor the lock of the snapshot, so the control loop's
\* submit and its read of the latest detections are never held up by it.
C16_DetectHoldsNoLock ==
    wrk.pc = "w_detect"
       => /\ LockFree("pending_frame_lock", wrk.holds)
          /\ LockFree("detection_results_lock", wrk.holds)
\* the control loop has submitted a later frame and finished that tick while
\* the detection of an earlier frame is still in progress
C16_Witness ==
    /\ wrk.pc = "w_detect"
    /\ pending_detection_frame # <<>>
    /\ pending_detection_frame[1].id > wrk.detection_frame.id
    /\ ctl.pc = "while" /\ ctl.frame = pending_detection_frame[1].id

\* the commands of the latest step that carry pan and tilt velocities
VelocityCommands(log) == {i \in 1..Len(log) : log[i].arg \in {"fine", "center"}}

\* C17: in every pan / tilt velocity command issued for tracking, an axis
\* whose offset from the frame centre is less than DEAD_ZONE_PIXELS in
\* absolute value has velocity exactly 0.
C17_DeadZone ==
    \A i \in VelocityCommands(ptz_log) :
        /\ Abs(ptz_log[i].offset2[1]) < 2 * DEAD_ZONE_PIXELS => ptz_log[i].pan = 0
        /\ Abs(ptz_log[i].offset2[2]) < 2 * DEAD_ZONE_PIXELS => ptz_log[i].tilt = 0

\* the velocity the handler of command c computes for a subject at x, at y
PanOf(c, x) == IF c.arg = "center" THEN CenterPanAt(x, Person(P1).confidence)
               ELSE FinePan(x, frame_width)
TiltOf(c, y) == IF c.arg = "center" THEN CenterTiltAt(y, Person(P1).confidence)
                ELSE FineTilt(y, frame_height)
\* velocity 1.0 in the unit of the command's handler
UnitOf(c, full) == IF c.arg = "center" THEN 1000 ELSE 2 * full * full

\* C18: the velocity commanded on an axis does not decrease in absolute value
\* when the offset grows in absolute value, across the edge of the dead zone
\* and beyond the frame edge, and pan is within [-1, 1], tilt within
\* [-0.75, 0.75].
C18_MonotoneBounded ==
    \A i \in VelocityCommands(ptz_log) :
        LET c == ptz_log[i]
        IN  /\ \A x \in VelocityXs :
                  Abs(2 * x - frame_width) >= Abs(c.offset2[1])
                     => Abs(PanOf(c, x)) >= Abs(c.pan)
            /\ \A y \in VelocityYs :
                  Abs(2 * y - frame_height) >= Abs(c.offset2[2])
                     => Abs(TiltOf(c, y)) >= Abs(c.tilt)
            /\ Abs(c.pan) <= UnitOf(c, frame_width)
            /\ 4 * Abs(c.tilt) <= 3 * UnitOf(c, frame_height)
\* a center command for a subject beyond the frame edge, at full speed on both
\* axes
C18_Witness ==
    \E i \in VelocityCommands(ptz_log) :
        /\ ptz_log[i].arg = "center"
        /\ ptz_log[i].offset2[1] > frame_width
        /\ ptz_log[i].pan = 1000
        /\ ptz_log[i].tilt = MAX_TILT_VELOCITY

\* a step of the loop over the tracked detections in which the trigger gate
\* passed and the action handler ran (quadrant mode, or the first one of the
\* tick in center mode)
TriggeredStep ==
    /\ ctl.pc = "track"
    /\ ctl'.todo # ctl.todo
    /\ tick_log'.q_step \/ (tick_log'.fired /\ ~tick_log.fired)

\* C19: a triggered action for identity X opens an event for X with
\* start_time = now and frame_count = 1 when none is open, and otherwise
\* increments its frame_count and appends the zone and preset labels; the
\* open events are keyed by identity, so there is at most one per identity.
C19_EventPerAction ==
    [][ TriggeredStep =>
          LET X == Str(Head(ctl.todo)[1])
          IN  /\ X \in DOMAIN active_events'
              /\ IF X \in DOMAIN active_events
                 THEN /\ active_events'[X].frame_count
                            = active_events[X].frame_count + 1
                      /\ Len(active_events'[X].zone_transitions)
                            = Len(active_events[X].zone_transitions) + 1
                      /\ Len(active_events'[X].ptz_actions)
                            = Len(active_events[X].ptz_actions) + 1
                 ELSE /\ active_events'[X].frame_count = 1
                      /\ active_events'[X].start_time \in now..now' ]_vars

\* C20: toggle_quadrant_mode(false) leaves quadrant_mode_enabled = false and
\* current_quadrant = none, and so does a second call right after it;
\* toggle_quadrant_mode(true) leaves current_quadrant = none; every call
\* returns the new value of quadrant_mode_enabled.
C20_ToggleIdempotent ==
    /\ \A i \in 1..Len(api.toggle) :
          LET c == api.toggle[i]
          IN  /\ c.returned = c.left[1]
              /\ c.enabled = "False" => c.left = <<FALSE, NoQuadrant>>
              /\ c.enabled = "True" => c.left = <<TRUE, NoQuadrant>>
    /\ (/\ Len(api.toggle) = 2
        /\ api.toggle[1].enabled = "False"
        /\ api.toggle[2].enabled = "False")
          => api.toggle[2].left = api.toggle[1].left
\* toggle_quadrant_mode(false) was called twice in a row, the first time with
\* a quadrant handled before
C20_Witness ==
    /\ Len(api.toggle) = 2
    /\ api.toggle[1].enabled = "False" /\ api.toggle[1].before # NoQuadrant
    /\ api.toggle[2].enabled = "False"

\* C21: in one call of _assign_object_ids every detection receives exactly one
\* identity and no two detections receive the same one; a newly created
\* identity is greater than every identity issued before (all of which are
\* below next_object_id, which never decreases), so no identity is issued
\* twice, also after an identity has been evicted.
C21_DistinctIncreasing ==
    [][ LET a == tick_log'.assigned
        IN  /\ next_object_id' >= next_object_id
            /\ \A oid \in DOMAIN object_centroids : oid < next_object_id
            /\ Len(a) = Len(ctl'.content)
            /\ \A i \in 1..Len(a) : a[i][2] = ctl'.content[i]
            /\ \A i, j \in 1..Len(a) : i < j => a[i][1] # a[j][1]
            /\ \A i \in 1..Len(a) :
                  a[i][1] \notin DOMAIN object_centroids
                     => /\ a[i][1] >= next_object_id
                        /\ a[i][1] < next_object_id'
                        /\ \A j \in 1..(i - 1) : a[j][1] < a[i][1] ]_vars
\* two detections farther apart than max_centroid_distance in one call, the
\* first matched to an identity known before, the second given a new one,
\* after an identity issued earlier has been evicted
C21_Witness ==
    /\ Len(tick_log.assigned) = 2
    /\ Dist2(tick_log.assigned[1][2].center, tick_log.assigned[2][2].center)
          > max_centroid_distance * max_centroid_distance
    /\ tick_log.assigned[1][1] \in DOMAIN tick_log.centroids0
    /\ tick_log.assigned[2][1] \notin DOMAIN tick_log.centroids0
    /\ \E oid \in 0..(next_object_id - 1) : oid \notin DOMAIN object_centroids

\* the last n elements of a sequence
LastOf(seq, n) == SubSeq(seq, Len(seq) - Min(n, Len(seq)) + 1, Len(seq))

\* C22: after any sequence of MotionTracker.update calls for an identity its
\* history holds at most history_length samples, and they are the most recent
\* ones in the order of arrival.
C22_BoundedHistory ==
    \A oid \in DOMAIN position_history :
        /\ Len(position_history[oid]) <= history_length
        /\ position_history[oid] = LastOf(ctl.content, history_length)
\* more samples have arrived than the history holds
C22_Witness ==
    /\ Len(ctl.content) > history_length
    /\ ctl.content[1] # ctl.content[Len(ctl.content)]

\* the direction returned by the latest update of the identity
Returned == track_info["obj_1"].current_direction

\* the length of the path through the samples (all on one horizontal line)
RECURSIVE PathLength(_)
PathLength(seq) ==
    IF Len(seq) < 2 THEN 0
    ELSE Abs(seq[2][1] - seq[1][1]) + PathLength(Tail(seq))

\* C23: whenever the total displacement of the positions fed to update for
\* one identity is below stationary_threshold, update returns STATIONARY.
C23_SmallIsStationary ==
    (ctl.content # <<>> /\ PathLength(ctl.content) < stationary_threshold)
        => Returned = "STATIONARY"

\* the samples move by the same step along x between any two updates
ConstantStep(seq, step) ==
    \A i \in 2..Len(seq) : seq[i][1] - seq[i - 1][1] = step /\ seq[i][2] = seq[1][2]

\* C24: when the identity moves with constant horizontal velocity above
\* movement_threshold (pixels per second; updates are 0.05 s apart) and the
\* history has the samples a direction needs, update returns LEFT_TO_RIGHT
\* for increasing x and RIGHT_TO_LEFT for decreasing x.
C24_DirectionOfVelocity ==
    \A step \in MotionSteps :
        (/\ Len(ctl.content) >= min_history_for_direction
         /\ ConstantStep(ctl.content, step)
         /\ 20 * Abs(step) > movement_threshold)
            => Returned = IF step > 0 THEN "LEFT_TO_RIGHT" ELSE "RIGHT_TO_LEFT"

\* C27: the first update of a new identity, a single sample in its history,
\* returns STATIONARY.
C27_FirstIsStationary ==
    \A oid \in DOMAIN position_history :
        Len(position_history[oid]) = 1 => track_info[oid].current_direction = "STATIONARY"

\* the frames of a sequence, in increasing order of arrival
Ascending(seq) == \A i, j \in 1..Len(seq) : i < j => seq[i] < seq[j]
\* what holds of the stream in every state
StreamState(st) ==
    /\ Len(st.frame_queue) <= buffer_size
    /\ st.cap.pc = "c_put" => Len(st.frame_queue) < buffer_size
    /\ Ascending(st.delivered \o st.frame_queue)
    /\ st.frames_dropped =
          Cardinality({f \in 1..st.frames_received :
                          /\ \A i \in 1..Len(st.frame_queue) : st.frame_queue[i] # f
                          /\ \A i \in 1..Len(st.delivered) : st.delivered[i] # f
                          /\ ~(st.cap.pc \in {"c_put", "c_drop"} /\ st.cap.frame = f)})

PausedBetweenTicks == paused /\ ctl.pc = "while"

\* C26: while the engine is paused and no tick is in flight, the control loop
\* stays in its loop and processes nothing: it reads no frame, frame_count,
\* the identity and motion records and the events do not change, and no
\* actuator command, home-return included, is issued.
C26_PausedIsQuiet ==
    [][ (PausedBetweenTicks /\ paused')
          => /\ ctl'.pc = IF running THEN "while" ELSE ctl'.pc
             /\ ctl'.pc \in {"while", "exited"}
             /\ frame_count' = frame_count
             /\ trackerVars' = trackerVars
             /\ motionVars' = motionVars
             /\ eventVars' = eventVars
             /\ ptzVars' = ptzVars
             /\ stateVars' = stateVars ]_vars
\* the control loop has slept while paused, at a time when the return to the
\* idle preset is due, and no command was sent
C26_Witness ==
    /\ PausedBetweenTicks
    /\ ctl.waits > 0
    /\ now - last_movement_time >= inactivity_timeout
    /\ current_preset # PresetToUse
    /\ ptz_log = <<>>

\* detection j of the call lies within max_distance of the last position of
\* track k, no other detection of the call is as near to it, and no other
\* track is as near to the detection
OwnDetection(k, j, dets) ==
    LET p == mot.last_positions[k]
    IN  /\ Dist2(dets[j], p) < max_distance * max_distance
        /\ \A i \in 1..Len(dets) : i # j => Dist2(dets[i], p) > Dist2(dets[j], p)
        /\ \A o \in DOMAIN mot.last_positions :
              o # k => Dist2(dets[j], mot.last_positions[o]) > Dist2(dets[j], p)

\* C28: a track whose object is detected within max_distance of its last
\* position (the detection nearest to the track, and the track nearest to the
\* detection) has that detection under its own track id in the result of the
\* next update; each of the detections of an update on a tracker without
\* tracks yields a track of its own; no track stays unmatched for more than
\* max_age updates, and track_ages, last_positions and the MotionTracker
\* hold the same tracks.
C28_TracksPersist ==
    [][ LET dets == mot'.detections
        IN  /\ \A k \in DOMAIN mot.last_positions :
                  \A j \in 1..Len(dets) :
                      OwnDetection(k, j, dets)
                         => /\ k \in DOMAIN mot'.results
                            /\ mot'.results[k][1] = dets[j]
            /\ DOMAIN mot.last_positions = {}
                  => Cardinality(DOMAIN mot'.results) = Len(dets)
            /\ DOMAIN mot'.track_ages = DOMAIN mot'.last_positions
            /\ DOMAIN position_history' = DOMAIN mot'.track_ages
            /\ DOMAIN track_info' = DOMAIN mot'.track_ages
            /\ \A k \in DOMAIN mot'.track_ages : mot'.track_ages[k] - 1 <= max_age
      ]_vars

\* the latest command sent to the actuator before the step
LastCommand == IF ptz_log # <<>> THEN <<ptz_log[Len(ptz_log)]>> ELSE prev_cmd

\* C29: in a pass of the loop over the tracked detections, a tracking command
\* is issued for the identity, or last_movement_time is set, only if the
\* identity's direction is not STATIONARY, its frames_tracked is at least 2
\* and the command comes at least center_tracking_cooldown after the latest
\* command sent to the actuator.
C29_TriggerGate ==
    [][ (ctl.pc = "track" /\ ctl'.todo # ctl.todo /\ ctl'.raised = ctl.raised)
          => LET X   == Head(ctl.todo)[1]
                 oid == Str(X)
                 own == {i \in 1..Len(ptz_log') : ptz_log'[i].ident = X}
             IN  (own # {} \/ last_movement_time' # last_movement_time)
                    => /\ track_info'[oid].current_direction # "STATIONARY"
                       /\ track_info'[oid].frames_tracked >= min_frames_tracked
                       /\ \A i \in own, k \in 1..Len(LastCommand) :
                             ptz_log'[i].t - LastCommand[k].t
                                >= center_tracking_cooldown ]_vars


\* C30: a goto_preset of the inactivity monitor is sent only when at least
\* inactivity_timeout has passed since last_movement_time (the tick of the last
\* tracking action, or start()), and only if its target differs from
\* current_preset or more than 1 s has passed since last_ptz_time; two
\* consecutive home-return commands to the same preset are more than 1 s apart
HomeReturn == ctl.pc = "snapshot" /\ tick_log'.home # <<>>
C30_HomeReturnGate ==
    [][ HomeReturn
          => LET cmd == ptz_log'[1]
             IN  /\ cmd.op = "goto_preset" /\ cmd.arg = tick_log'.home[1]
                 /\ cmd.t - last_movement_time >= inactivity_timeout
                 /\ \/ cmd.arg # current_preset
                    \/ cmd.t - last_ptz_time > home_reissue_gap
                 /\ \A k \in 1..Len(tick_log.last_home) :
                       tick_log.last_home[k].arg = cmd.arg
                          => cmd.t - tick_log.last_home[k].t > home_reissue_gap ]_vars
\* a home-return follows a home-return to the same preset
C30_Witness ==
    /\ tick_log.home # <<>> /\ tick_log.done
    /\ tick_log.preset0 = tick_log.home[1]
    /\ tick_log.lpt0 > 0

\* -1, 0 or 1
SignOf(v) == IF v > 0 THEN 1 ELSE IF v < 0 THEN -1 ELSE 0

\* C31: for every subject position for which quadrant fine-tracking sends a
\* command, its pan and tilt velocities have the sign of the velocities center
\* tracking computes for that position, and are zero on an axis exactly when
\* those are.
C31_SameCenteringLaw ==
    \A i \in VelocityCommands(ptz_log) :
        LET c   == ptz_log[i]
            det == Head(ctl.todo)[2]
        IN  (/\ c.arg = "fine"
             /\ \/ FineExceeds(c.offset2[1], frame_width)
                \/ FineExceeds(c.offset2[2], frame_height))
               => /\ SignOf(c.pan) = SignOf(CenterPanAt(det.center[1], det.confidence))
                  /\ SignOf(c.tilt) = SignOf(CenterTiltAt(det.center[2], det.confidence))

\* the identities of centroids that detection k of dets can be matched to:
\* known before the call, not given to an earlier detection of the call, and
\* nearer than max_centroid_distance
Candidates(k, dets, assigned, centroids) ==
    {oid \in DOMAIN centroids \ {assigned[j][1] : j \in 1..(k - 1)} :
        Dist2(dets[k].center, centroids[oid])
           < max_centroid_distance * max_centroid_distance}

\* C32: in a call of _assign_object_ids with detections, each detection, in
\* the order given, gets the nearest identity among those not matched earlier
\* in the call and nearer than max_centroid_distance, which then has the
\* detection's centre as centroid and age 0; a detection with no such identity
\* gets a new identity.
C32_GreedyNearest ==
    [][ ctl'.content # <<>>
          => LET dets == ctl'.content
                 a    == tick_log'.assigned
             IN  /\ Len(a) = Len(dets)
                 /\ \A k \in 1..Len(dets) :
                       LET cand == Candidates(k, dets, a, object_centroids)
                       IN  /\ cand = {} => a[k][1] \notin DOMAIN object_centroids
                           /\ cand # {}
                                => /\ a[k][1] \in cand
                                   /\ \A oid \in cand :
                                         Dist2(dets[k].center, object_centroids[a[k][1]])
                                            <= Dist2(dets[k].center, object_centroids[oid])
                           /\ object_centroids'[a[k][1]] = dets[k].center
                           /\ centroid_ages'[a[k][1]] = 0 ]_vars
\* a detection with two identities in reach was given the nearer one, which is
\* not the one the loop over the centroids meets first
C32_Witness ==
    /\ tick_log.assigned # <<>>
    /\ LET cand == Candidates(1, ctl.content, tick_log.assigned, tick_log.centroids0)
       IN  /\ Cardinality(cand) >= 2
           /\ \E oid \in cand : oid < tick_log.assigned[1][1]

\* the samples the history window holds after the latest update, as they were
\* passed to update, and the displacement from the oldest to the newest
Window == LastOf(ctl.content, history_length)
WindowDx == Window[Len(Window)][1] - Window[1][1]
WindowDy == Window[Len(Window)][2] - Window[1][2]
WindowD2 == WindowDx * WindowDx + WindowDy * WindowDy

C34_DisplacementAccumulates ==
    [][ \A oid \in DOMAIN track_info :
           track_info'[oid].total_displacement >= track_info[oid].total_displacement ]_vars

\* C35: in every state a track whose last update is older than
\* inactive_timeout has is_active = false.
C35_StaleIsInactive ==
    \A oid \in DOMAIN track_info :
        now - track_info[oid].last_update_time > inactive_timeout
           => ~track_info[oid].is_active

\* what the latest call of the center handler computed
Call == ctl.content[1]

\* C36: the position is extrapolated only when the confidence exceeds the
\* floor; the confidence factor is 0 at the floor, never exceeds 1 and does not
\* decrease with the confidence; the predicted position lies within the frame.
C36_Prediction ==
    ctl.content # <<>>
      => /\ Call.confidence <= confidence_floor => Call.predicted = 10 * Call.x
         /\ Call.confidence = confidence_floor => Call.factor = 0
         /\ Call.factor <= 40
         /\ \A conf \in Call.confidence..100 : ConfidenceFactor(conf) >= Call.factor
         /\ 0 <= Call.predicted /\ Call.predicted <= 10 * frame_width

LiveThreads(t) ==
    {l \in {[f \in DOMAIN t \ {"old"} |-> t[f]]} \cup {t.old[i] : i \in 1..Len(t.old)} :
        ~ThreadEnded(l.pc)}

\* C38: over any sequence of start() and stop() calls at most one control-loop
\* thread and at most one detection-worker thread are executing loop
\* iterations.
C38_OneThreadPerLoop ==
    /\ Cardinality(LiveThreads(ctl)) <= 1
    /\ Cardinality(LiveThreads(wrk)) <= 1

\* C39: each snapshot published by the detection worker is fed to the trackers
\* by at most one tick, so that no identity has been counted more often
\* (frames_tracked, samples of its history) than the detector has been run.
C39_SnapshotFedOnce ==
    \A oid \in DOMAIN track_info :
        /\ track_info[oid].frames_tracked <= Len(mailbox_log.detected)
        /\ Len(position_history[oid]) <= Len(mailbox_log.detected)

RECURSIVE SumFrameCount(_)
SumFrameCount(events) ==
    IF events = <<>> THEN 0 ELSE Head(events).frame_count + SumFrameCount(Tail(events))

\* C40: each event has frame_count = len(zone_transitions) = len(ptz_actions)
\* >= 1; active events have no end_time, completed events have one that is not
\* before start_time; event_ids are pairwise distinct; ptz_movement_count is
\* the sum of frame_count over all events.
C40_EventBookkeeping ==
    /\ \A k \in DOMAIN active_events :
          LET e == active_events[k]
          IN  /\ e.frame_count = Len(e.zone_transitions)
              /\ e.frame_count = Len(e.ptz_actions)
              /\ e.frame_count >= 1
              /\ e.end_time = <<>>
    /\ \A i \in 1..Len(completed_events) :
          LET e == completed_events[i]
          IN  /\ e.frame_count = Len(e.zone_transitions)
              /\ e.frame_count = Len(e.ptz_actions)
              /\ e.frame_count >= 1
              /\ e.end_time # <<>> /\ e.end_time[1] >= e.start_time
    /\ \A k1, k2 \in DOMAIN active_events :
          k1 # k2 => active_events[k1].event_id # active_events[k2].event_id
    /\ \A i, j \in 1..Len(completed_events) :
          i # j => completed_events[i].event_id # completed_events[j].event_id
    /\ \A k \in DOMAIN active_events, i \in 1..Len(completed_events) :
          active_events[k].event_id # completed_events[i].event_id
    /\ ptz_movement_count
          = SumFrameCount(completed_events)
            + SumFrameCount([i \in 1..Cardinality(DOMAIN active_events) |->
                                active_events[CHOOSE k \in DOMAIN active_events :
                                    Cardinality({j \in DOMAIN active_events :
                                        EventNumber(active_events[j])
                                           <= EventNumber(active_events[k])}) = i]])
====
